---- MODULE Spec2Model ----
(***************************************************************************)
(* Finance-bro backend: the analysis result cache, the stock / portfolio   *)
(* analysis pipelines (services/analysis.py) and the portfolio valuation   *)
(* engine (services/portfolio.py) as state machines.                       *)
(*                                                                         *)
(* The specifications share the variables:                                 *)
(*   SpecCache      the result cache driven directly (get / put / clock)   *)
(*   SpecAnalysis   analyze_stock and analyze_portfolio over the cache     *)
(*   SpecPortfolio  the portfolio service over the in-memory store         *)
(*   SpecChat       the chat service (services/chat.py) and its sweep      *)
(*   SpecChatLive   the chat service as deployed, with time passing        *)
(*   SpecScores     the portfolio scores and the overall risk level        *)
(***************************************************************************)
EXTENDS Integers, Sequences, FiniteSets, TLC

VARIABLES
    cache,              \* AnalysisService.cache, in dict insertion order
    now,                \* datetime.utcnow().timestamp(), whole seconds
    cacheRet,           \* outcome of the last direct cache operation
    stockRet,           \* outcome of the last analyze_stock call
    pfRet,              \* outcome of the last analyze_portfolio call
    portfolios_memory,  \* PortfolioStorageService._portfolios_memory[key]
    opRet,              \* outcome of the last portfolio service call
    calls,              \* service calls made so far
    sessions,           \* ChatService.sessions, in dict insertion order
    issued,             \* session ids (uuid4) issued so far
    chatRet,            \* outcome of the last chat service call
    scoreRet,           \* outcome of the last score computation
    newsRet,            \* outcome of the last news collection
    tasks               \* the service calls in flight, each at an await

vars == <<cache, now, cacheRet, stockRet, pfRet, portfolios_memory, opRet, calls,
          sessions, issued, chatRet, scoreRet, newsRet, tasks>>

\* the state of the chat service and of the score computations
chatVars == <<sessions, issued, chatRet>>
runVars == <<newsRet, tasks>>
otherVars == <<chatVars, scoreRet, runVars>>

(***************************************************************************)
(* Bounds of the model.                                                    *)
(***************************************************************************)
Prec == 3           \* significant digits of the decimal context (scaled down)
MaxShares == 2      \* largest share count of one lot
MaxHeld == 3        \* largest share count a holding may reach by merging
MaxPrice == 2       \* largest purchase price
MaxQuote == 1       \* number of distinct quoted prices
NumFresh == 2       \* keys beyond the pre-filled cache that a put may use
ExtraTime == 0      \* seconds the clock may run past one TTL
MaxCacheOps == 2    \* direct cache calls in one run
MaxCalls == 4       \* portfolio service calls in one run
MaxHoldings == 2    \* holdings of a portfolio handed to analyze_portfolio
NumUsers == 2       \* users asking for analyses
MaxRuns == 2        \* analysis requests in one run
MaxFaults == 1      \* collaborators down together during one stock analysis
MaxChatOps == 3     \* chat service calls in one run
MaxStocks == 21     \* holdings of a portfolio that is scored
MaxSectors == 10    \* distinct sectors of a portfolio that is scored
MaxLevels == 3      \* analyses whose risk levels are averaged
MaxTurns == 4       \* turns of the conversation that is followed

(***************************************************************************)
(* Optional values: None is the empty sequence, a present value v is <<v>>.*)
(***************************************************************************)
None == <<>>
Some(v) == <<v>>
IsNone(o) == o = <<>>
Get(o) == o[1]

(***************************************************************************)
(* decimal.Decimal under the default context (ROUND_HALF_EVEN), with Prec  *)
(* significant digits.  A value is c * 10^e, kept normalised (no trailing  *)
(* zero in c, zero is [c=0,e=0]) so that = is numeric equality, as         *)
(* Decimal.__eq__ is.                                                      *)
(***************************************************************************)
RECURSIVE Pow10(_)
Pow10(n) == IF n <= 0 THEN 1 ELSE 10 * Pow10(n - 1)

Abs(x) == IF x < 0 THEN -x ELSE x
Sign(x) == IF x < 0 THEN -1 ELSE 1

RECURSIVE NumDigits(_)
NumDigits(n) == IF n < 10 THEN 1 ELSE 1 + NumDigits(n \div 10)

RECURSIVE DecNorm(_, _)
DecNorm(c, e) ==
    IF c = 0 THEN [c |-> 0, e |-> 0]
    ELSE IF c % 10 = 0 THEN DecNorm(c \div 10, e + 1)
    ELSE [c |-> c, e |-> e]

\* Round the exact value c * 10^e to Prec significant digits, half to even.
DecRound(c, e) ==
    LET a == Abs(c)
        d == NumDigits(a) - Prec
    IN  IF d <= 0 THEN DecNorm(c, e)
        ELSE LET q == a \div Pow10(d)
                 r == a % Pow10(d)
                 up == (2 * r > Pow10(d)) \/ (2 * r = Pow10(d) /\ q % 2 = 1)
                 m == IF up THEN q + 1 ELSE q
             IN  DecNorm(Sign(c) * m, e + d)

Dec(n) == DecNorm(n, 0)

DecMul(x, y) == DecRound(x.c * y.c, x.e + y.e)

DecAdd(x, y) ==
    LET e == IF x.e < y.e THEN x.e ELSE y.e
    IN  DecRound(x.c * Pow10(x.e - e) + y.c * Pow10(y.e - e), e)

DecSub(x, y) == DecAdd(x, [c |-> -y.c, e |-> y.e])

RECURSIVE DivShift(_, _, _)
DivShift(a, b, k) ==
    IF (a * Pow10(k)) \div b >= Pow10(Prec - 1) THEN k ELSE DivShift(a, b, k + 1)

\* x / y correctly rounded to Prec digits (y # 0).
DecDiv(x, y) ==
    IF x.c = 0 THEN [c |-> 0, e |-> 0]
    ELSE LET a == Abs(x.c)
             b == Abs(y.c)
             k == DivShift(a, b, 0)
             q == (a * Pow10(k)) \div b
             r == (a * Pow10(k)) % b
             up == (2 * r > b) \/ (2 * r = b /\ q % 2 = 1)
             m == IF up THEN q + 1 ELSE q
         IN  DecNorm(Sign(x.c) * Sign(y.c) * m, x.e - y.e - k)

DecGtZero(x) == x.c > 0
DecLe(x, y) == DecSub(x, y).c <= 0
\* bool(Decimal): zero is falsy; bool(None) is False.
Truthy(o) == ~IsNone(o) /\ Get(o).c # 0


(***************************************************************************)
(* Portfolio valuation engine (services/portfolio.py) over the in-memory   *)
(* portfolio store (services/user_storage.py).                             *)
(***************************************************************************)
Symbols == {"AAPL", "MSFT"}
ShareLots == 1 .. MaxShares
Prices == 1 .. MaxPrice
\* get_current_price: None when the provider has no bar or fails, else the
\* close of the latest bar as Decimal(str(price)); closes are positive
\* (1.5, 2.5, ... here, between the purchase prices).
Quotes == {None} \cup {Some(DecDiv(Dec(2 * p + 1), Dec(2))) : p \in 1 .. MaxQuote}
QuoteMaps == [Symbols -> Quotes]

\* The StockHolding built at portfolio.py:87-102: current price from the
\* lookup, derived values only when that price is present.
StockHolding(symbol, shares, purchase_price, quote) ==
    LET bare == [symbol |-> symbol, shares |-> shares, purchase_price |-> purchase_price,
                 current_price |-> IF Truthy(quote) THEN quote ELSE None,
                 market_value |-> None, gain_loss |-> None, gain_loss_percentage |-> None]
    IN  IF Truthy(bare.current_price)
        THEN LET market_value == DecMul(Get(bare.current_price), shares)
                 gain_loss == DecSub(market_value, DecMul(purchase_price, shares))
             IN  [bare EXCEPT
                    !.market_value = Some(market_value),
                    !.gain_loss = Some(gain_loss),
                    !.gain_loss_percentage =
                        IF DecGtZero(purchase_price)
                        THEN Some(DecMul(DecDiv(gain_loss, DecMul(purchase_price, shares)), Dec(100)))
                        ELSE None]
        ELSE bare

\* PortfolioStorageService.create_portfolio: the stored item.
EmptyPortfolio ==
    [stocks |-> <<>>, total_value |-> None, total_cost |-> None,
     total_gain_loss |-> None, total_gain_loss_percentage |-> None]

\* Body of the loop of _update_portfolio_values for one holding.
RevalueStockUnitFallback(stock, quote) ==
    LET priced == IF Truthy(quote)
                  THEN [stock EXCEPT !.current_price = quote,
                                     !.market_value = Some(DecMul(Get(quote), stock.shares))]
                  ELSE [stock EXCEPT !.market_value = Some(stock.purchase_price)]
        cost_basis == DecMul(stock.purchase_price, stock.shares)
        gain_loss == DecSub(Get(priced.market_value), cost_basis)
    IN  [priced EXCEPT
            !.gain_loss = Some(gain_loss),
            !.gain_loss_percentage =
                IF DecGtZero(cost_basis)
                THEN Some(DecMul(DecDiv(gain_loss, cost_basis), Dec(100)))
                ELSE priced.gain_loss_percentage]
RevalueStock(stock, quote) ==
    LET priced == IF Truthy(quote)
                  THEN [stock EXCEPT !.current_price = quote,
                                     !.market_value = Some(DecMul(Get(quote), stock.shares))]
                  ELSE [stock EXCEPT !.market_value = Some(DecMul(stock.shares, stock.purchase_price))]
        cost_basis == DecMul(stock.purchase_price, stock.shares)
        gain_loss == DecSub(Get(priced.market_value), cost_basis)
    IN  [priced EXCEPT
            !.gain_loss = Some(gain_loss),
            !.gain_loss_percentage =
                IF DecGtZero(cost_basis)
                THEN Some(DecMul(DecDiv(gain_loss, cost_basis), Dec(100)))
                ELSE priced.gain_loss_percentage]

RevalueAll(stocks, quotes) ==
    [i \in 1 .. Len(stocks) |-> RevalueStock(stocks[i], quotes[stocks[i].symbol])]

\* total_value += stock.market_value, left to right from Decimal('0').
RECURSIVE SumMarketValue(_, _)
SumMarketValue(stocks, n) ==
    IF n = 0 THEN Dec(0)
    ELSE DecAdd(SumMarketValue(stocks, n - 1), Get(stocks[n].market_value))

\* total_cost += cost_basis, left to right from Decimal('0').
RECURSIVE SumCostBasis(_, _)
SumCostBasisUnweighted(stocks, n) ==
    IF n = 0 THEN Dec(0)
    ELSE DecAdd(SumCostBasis(stocks, n - 1), stocks[n].purchase_price)
SumCostBasis(stocks, n) ==
    IF n = 0 THEN Dec(0)
    ELSE DecAdd(SumCostBasis(stocks, n - 1),
                DecMul(stocks[n].purchase_price, stocks[n].shares))

\* PortfolioService._update_portfolio_values
UpdatePortfolioValuesAccumulating(portfolio, quotes) ==
    LET stocks == RevalueAll(portfolio.stocks, quotes)
        total_value == DecAdd(IF IsNone(portfolio.total_value) THEN Dec(0)
                              ELSE Get(portfolio.total_value),
                              SumMarketValue(stocks, Len(stocks)))
        total_cost == SumCostBasis(stocks, Len(stocks))
        total_gain_loss == DecSub(total_value, total_cost)
    IN  [stocks |-> stocks,
         total_value |-> Some(total_value),
         total_cost |-> Some(total_cost),
         total_gain_loss |-> Some(total_gain_loss),
         total_gain_loss_percentage |->
            IF DecGtZero(total_cost)
            THEN Some(DecMul(DecDiv(total_gain_loss, total_cost), Dec(100)))
            ELSE portfolio.total_gain_loss_percentage]
UpdatePortfolioValues(portfolio, quotes) ==
    LET stocks == RevalueAll(portfolio.stocks, quotes)
        total_value == SumMarketValue(stocks, Len(stocks))
        total_cost == SumCostBasis(stocks, Len(stocks))
        total_gain_loss == DecSub(total_value, total_cost)
    IN  [stocks |-> stocks,
         total_value |-> Some(total_value),
         total_cost |-> Some(total_cost),
         total_gain_loss |-> Some(total_gain_loss),
         total_gain_loss_percentage |->
            IF DecGtZero(total_cost)
            THEN Some(DecMul(DecDiv(total_gain_loss, total_cost), Dec(100)))
            ELSE portfolio.total_gain_loss_percentage]

\* for i, stock in enumerate(portfolio.stocks): first index holding symbol, 0 if none
RECURSIVE FindFrom(_, _, _)
FindFrom(stocks, symbol, i) ==
    IF i > Len(stocks) THEN 0
    ELSE IF stocks[i].symbol = symbol THEN i
    ELSE FindFrom(stocks, symbol, i + 1)

FindStock(stocks, symbol) == FindFrom(stocks, symbol, 1)

\* portfolio.py:111-125, the average-cost update of the existing holding
MergeHoldingOneSided(existing, stock_holding) ==
    LET total_shares == DecAdd(existing.shares, stock_holding.shares)
        total_cost == DecAdd(DecMul(existing.shares, existing.purchase_price),
                             DecMul(stock_holding.shares, existing.purchase_price))
        avg_price == DecDiv(total_cost, total_shares)
    IN  [existing EXCEPT !.shares = total_shares,
                         !.purchase_price = avg_price,
                         !.current_price = stock_holding.current_price,
                         !.market_value = None]
MergeHolding(existing, stock_holding) ==
    LET total_shares == DecAdd(existing.shares, stock_holding.shares)
        total_cost == DecAdd(DecMul(existing.shares, existing.purchase_price),
                             DecMul(stock_holding.shares, stock_holding.purchase_price))
        avg_price == DecDiv(total_cost, total_shares)
        market_value == IF Truthy(stock_holding.current_price)
                        THEN Some(DecMul(Get(stock_holding.current_price), total_shares))
                        ELSE None
        base == [existing EXCEPT !.shares = total_shares,
                                 !.purchase_price = avg_price,
                                 !.current_price = stock_holding.current_price,
                                 !.market_value = market_value]
    IN  IF Truthy(market_value)
        THEN LET gain_loss == DecSub(Get(market_value), DecMul(avg_price, total_shares))
             IN  [base EXCEPT
                    !.gain_loss = Some(gain_loss),
                    !.gain_loss_percentage =
                        Some(DecMul(DecDiv(gain_loss, DecMul(avg_price, total_shares)), Dec(100)))]
        ELSE base

\* portfolio.py:104-128: merge into the holding of the same symbol, or append
AddOrMergeAppending(stocks, stock_holding) == Append(stocks, stock_holding)
AddOrMerge(stocks, stock_holding) ==
    LET i == FindStock(stocks, stock_holding.symbol)
    IN  IF i # 0
        THEN [stocks EXCEPT ![i] = MergeHolding(stocks[i], stock_holding)]
        ELSE Append(stocks, stock_holding)

\* portfolio.py:160-178, shares / purchase_price of a StockHoldingUpdate and
\* the re-pricing that follows
ApplyStockUpdate(stock, new_shares, new_price, quote) ==
    LET s1 == IF Truthy(new_shares) THEN [stock EXCEPT !.shares = Get(new_shares)] ELSE stock
        s2 == IF Truthy(new_price) THEN [s1 EXCEPT !.purchase_price = Get(new_price)] ELSE s1
    IN  IF Truthy(quote)
        THEN LET market_value == DecMul(Get(quote), s2.shares)
                 gain_loss == DecSub(market_value, DecMul(s2.purchase_price, s2.shares))
             IN  [s2 EXCEPT
                    !.current_price = quote,
                    !.market_value = Some(market_value),
                    !.gain_loss = Some(gain_loss),
                    !.gain_loss_percentage =
                        IF DecGtZero(s2.purchase_price)
                        THEN Some(DecMul(DecDiv(gain_loss, DecMul(s2.purchase_price, s2.shares)), Dec(100)))
                        ELSE s2.gain_loss_percentage]
        ELSE s2

\* [stock for stock in portfolio.stocks if stock.symbol != symbol]
RECURSIVE RemoveSymbol(_, _)
RemoveSymbol(stocks, symbol) ==
    IF stocks = <<>> THEN <<>>
    ELSE IF Head(stocks).symbol = symbol THEN RemoveSymbol(Tail(stocks), symbol)
    ELSE <<Head(stocks)>> \o RemoveSymbol(Tail(stocks), symbol)


(***************************************************************************)
(* Result cache of AnalysisService (services/analysis.py).  self.cache is  *)
(* a dict: the model keeps its items in insertion order, which is the      *)
(* order sorted() sees and keeps among equal timestamps.                   *)
(***************************************************************************)
cache_ttl == 3600
cache_max == 100
cache_evict == 20

\* cache_key = f"stock_analysis_{symbol}_{user.id}": one key per (symbol, user)
CacheKey(symbol, user) == <<symbol, user>>

\* index of key in the items, 0 when absent
RECURSIVE KeyIndex(_, _, _)
KeyIndex(items, key, i) ==
    IF i > Len(items) THEN 0
    ELSE IF items[i].key = key THEN i
    ELSE KeyIndex(items, key, i + 1)

CacheHas(items, key) == KeyIndex(items, key, 1) # 0
CacheItem(items, key) == items[KeyIndex(items, key, 1)]

\* del self.cache[key] for every key of the set
DelKeys(items, keys) == SelectSeq(items, LAMBDA it : it.key \notin keys)

\* position of items[i] in sorted(self.cache.items(), key=timestamp): the
\* sort is stable, so an item follows those with a smaller timestamp and
\* those with an equal timestamp that precede it in the dict
SortedPositionTiesReversed(items, i) ==
    1 + Cardinality({j \in 1 .. Len(items) :
                        \/ items[j].timestamp < items[i].timestamp
                        \/ items[j].timestamp = items[i].timestamp /\ j > i})
SortedPosition(items, i) ==
    1 + Cardinality({j \in 1 .. Len(items) :
                        \/ items[j].timestamp < items[i].timestamp
                        \/ items[j].timestamp = items[i].timestamp /\ j < i})

\* the keys of sorted_items[:20]
OldestKeys(items) ==
    {items[i].key : i \in {j \in 1 .. Len(items) : SortedPosition(items, j) <= cache_evict}}

\* AnalysisService._get_from_cache: the value returned and the cache left
GetFromCacheInclusive(items, key, t) ==
    IF CacheHas(items, key)
    THEN LET item == CacheItem(items, key)
         IN  IF t - item.timestamp <= cache_ttl
             THEN [value |-> Some(item.data), cache |-> items]
             ELSE [value |-> None, cache |-> DelKeys(items, {key})]
    ELSE [value |-> None, cache |-> items]
GetFromCache(items, key, t) ==
    IF CacheHas(items, key)
    THEN LET item == CacheItem(items, key)
         IN  IF t - item.timestamp < cache_ttl
             THEN [value |-> Some(item.data), cache |-> items]
             ELSE [value |-> None, cache |-> DelKeys(items, {key})]
    ELSE [value |-> None, cache |-> items]

\* AnalysisService._cache_result: the cache left
CacheResultEager(items, key, data, t) ==
    LET entry == [key |-> key, data |-> data, timestamp |-> t]
        stored == IF CacheHas(items, key)
                  THEN [items EXCEPT ![KeyIndex(items, key, 1)] = entry]
                  ELSE Append(items, entry)
    IN  IF Len(stored) >= cache_max
        THEN DelKeys(stored, OldestKeys(stored))
        ELSE stored
CacheResult(items, key, data, t) ==
    LET entry == [key |-> key, data |-> data, timestamp |-> t]
        stored == IF CacheHas(items, key)
                  THEN [items EXCEPT ![KeyIndex(items, key, 1)] = entry]
                  ELSE Append(items, entry)
    IN  IF Len(stored) > cache_max
        THEN DelKeys(stored, OldestKeys(stored))
        ELSE stored

(***************************************************************************)
(* Stock analysis pipeline (AnalysisService.analyze_stock).                *)
(***************************************************************************)
\* FinancialAnalysisOutput built by _create_fallback_analysis;
\* confidence_score is kept in tenths (3 is 0.3)
CreateFallbackAnalysis ==
    [qualitative_analysis |-> "Limited news data available",
     quantitative_analysis |-> "Recent price data shows normal market fluctuations",
     user_portfolio_fit |-> "This stock's fit with your portfolio depends on your current holdings",
     recommendation |-> "Hold position until more comprehensive data is available",
     recommendation_action |-> "hold",
     risk_level |-> "medium",
     confidence_score |-> 3,
     target_price |-> None]

\* results the structured reasoning call can return: any text (the schema
\* accepts empty strings), any action, level and score
LLMBullish ==
    [qualitative_analysis |-> "strong quarter", quantitative_analysis |-> "rising",
     user_portfolio_fit |-> "adds concentration", recommendation |-> "buy",
     recommendation_action |-> "buy", risk_level |-> "high",
     confidence_score |-> 9, target_price |-> Some(Dec(2))]
LLMTerse ==
    [qualitative_analysis |-> "", quantitative_analysis |-> "",
     user_portfolio_fit |-> "", recommendation |-> "",
     recommendation_action |-> "sell", risk_level |-> "very_low",
     confidence_score |-> 0, target_price |-> Some(Dec(0))]
\* None: structured_llm.invoke raised
LLMOutcomes == {None, Some(LLMBullish), Some(LLMTerse)}

\* NewsSource items appended at analysis.py:187-194
RECURSIVE FromPolygon(_)
FromPolygon(articles) ==
    IF articles = <<>> THEN <<>>
    ELSE <<[url |-> Head(articles), origin |-> "polygon", relevance_score |-> 8]>>
         \o FromPolygon(Tail(articles))

\* analysis.py:198-207: scraped articles whose URL is not yet in the list
RECURSIVE AddScraped(_, _)
AddScraped(news_sources, articles) ==
    IF articles = <<>> THEN news_sources
    ELSE IF \E i \in 1 .. Len(news_sources) : news_sources[i].url = Head(articles)
         THEN AddScraped(news_sources, Tail(articles))
         ELSE AddScraped(Append(news_sources,
                                [url |-> Head(articles), origin |-> "scraper",
                                 relevance_score |-> 9]),
                         Tail(articles))

news_limit == 25

\* AnalysisService._collect_news_data
CollectNewsData(polygon_news, scraped_articles) ==
    LET news_sources == AddScraped(FromPolygon(polygon_news), scraped_articles)
    IN  SubSeq(news_sources, 1,
               IF Len(news_sources) < news_limit THEN Len(news_sources) ELSE news_limit)

\* the StockAnalysis built at analysis.py:78-91 (and its dict())
StockAnalysis(symbol, out, news_sources, t) ==
    [symbol |-> symbol,
     qualitative_analysis |-> out.qualitative_analysis,
     quantitative_analysis |-> out.quantitative_analysis,
     user_portfolio_fit |-> out.user_portfolio_fit,
     recommendation |-> out.recommendation,
     recommendation_action |-> out.recommendation_action,
     risk_level |-> out.risk_level,
     confidence_score |-> out.confidence_score,
     target_price |-> IF Truthy(out.target_price) THEN out.target_price ELSE None,
     news_sources |-> news_sources,
     analysis_date |-> t]

\* AnalysisService._perform_rag_analysis: the document search runs outside
\* the try, the structured call inside it
PerformRagAnalysisUncaught(env) ==
    IF ~env.search_ok THEN [raised |-> TRUE, out |-> None, called |-> {"search"}]
    ELSE [raised |-> IsNone(env.llm), out |-> env.llm, called |-> {"search", "llm"}]
PerformRagAnalysis(env) ==
    IF ~env.search_ok THEN [raised |-> TRUE, out |-> None, called |-> {"search"}]
    ELSE [raised |-> FALSE,
          out |-> IF IsNone(env.llm) THEN Some(CreateFallbackAnalysis) ELSE env.llm,
          called |-> {"search", "llm"}]

\* analyze_stock on a cache hit (analysis.py:57-59): no collaborator is called
ReturnCachedAfterFetch(cached_result) ==
    [raised |-> FALSE, hit |-> TRUE, result |-> cached_result.value,
     cache |-> cached_result.cache,
     called |-> {"polygon_news", "scraper", "market_data"}]
ReturnCached(cached_result) ==
    [raised |-> FALSE, hit |-> TRUE, result |-> cached_result.value,
     cache |-> cached_result.cache, called |-> {}]

\* AnalysisService.analyze_stock, one whole call at time t: what it returns
\* or that it raised, the cache it leaves and the collaborators it called
AnalyzeStockFallbackUncached(items, t, symbol, user, env) ==
    LET cache_key == CacheKey(symbol, user)
        cached_result == GetFromCache(items, cache_key, t)
    IN  IF ~IsNone(cached_result.value)
        THEN ReturnCached(cached_result)
        ELSE LET news_sources == CollectNewsData(env.polygon_news, env.scraped)
                 collected == {"polygon_news", "scraper", "market_data"}
             IN  IF ~env.index_ok
                 THEN [raised |-> TRUE, hit |-> FALSE, result |-> None,
                       cache |-> cached_result.cache,
                       called |-> collected \cup {"index"}]
                 ELSE LET rag == PerformRagAnalysis(env)
                          called == collected \cup {"index"} \cup rag.called
                      IN  IF rag.raised
                          THEN [raised |-> TRUE, hit |-> FALSE, result |-> None,
                                cache |-> cached_result.cache, called |-> called]
                          ELSE LET stock_analysis ==
                                       StockAnalysis(symbol, Get(rag.out), news_sources, t)
                               IN  [raised |-> FALSE, hit |-> FALSE,
                                    result |-> Some(stock_analysis),
                                    cache |-> IF IsNone(env.llm)
                                              THEN cached_result.cache
                                              ELSE CacheResult(cached_result.cache,
                                                               cache_key,
                                                               stock_analysis, t),
                                    called |-> called]
AnalyzeStock(items, t, symbol, user, env) ==
    LET cache_key == CacheKey(symbol, user)
        cached_result == GetFromCache(items, cache_key, t)
    IN  IF ~IsNone(cached_result.value)
        THEN ReturnCached(cached_result)
        ELSE LET news_sources == CollectNewsData(env.polygon_news, env.scraped)
                 collected == {"polygon_news", "scraper", "market_data"}
             IN  IF ~env.index_ok
                 THEN [raised |-> TRUE, hit |-> FALSE, result |-> None,
                       cache |-> cached_result.cache,
                       called |-> collected \cup {"index"}]
                 ELSE LET rag == PerformRagAnalysis(env)
                          called == collected \cup {"index"} \cup rag.called
                      IN  IF rag.raised
                          THEN [raised |-> TRUE, hit |-> FALSE, result |-> None,
                                cache |-> cached_result.cache, called |-> called]
                          ELSE LET stock_analysis ==
                                       StockAnalysis(symbol, Get(rag.out), news_sources, t)
                               IN  [raised |-> FALSE, hit |-> FALSE,
                                    result |-> Some(stock_analysis),
                                    cache |-> CacheResult(cached_result.cache, cache_key,
                                                          stock_analysis, t),
                                    called |-> called]

(***************************************************************************)
(* Initial state: the services right after construction.                   *)
(***************************************************************************)
NoCall == [op |-> "none"]

\* the clock reading when the model starts
StartTime == cache_max

Init ==
    /\ cache = <<>>
    /\ now = StartTime
    /\ cacheRet = NoCall
    /\ stockRet = NoCall
    /\ pfRet = NoCall
    /\ portfolios_memory = None
    /\ opRet = NoCall
    /\ calls = 0
    /\ sessions = <<>>
    /\ issued = 0
    /\ chatRet = NoCall
    /\ scoreRet = NoCall
    /\ newsRet = NoCall
    /\ tasks = <<>>

(***************************************************************************)
(* Portfolio service operations.  Each is the whole handler: load from the *)
(* store, change the holdings, revalue, write back.                        *)
(***************************************************************************)
OptLots == {None} \cup {Some(Dec(n)) : n \in ShareLots}
OptPrices == {None} \cup {Some(Dec(p)) : p \in Prices}

\* what a call that found no portfolio / no holding leaves behind
NotFound(name, symbol) ==
    [op |-> name, symbol |-> symbol, ok |-> FALSE]

\* what a call that wrote the portfolio back leaves behind
Done(name, symbol, lot, before, quotes) ==
    [op |-> name, symbol |-> symbol, ok |-> TRUE, lot |-> lot,
     before |-> before, quotes |-> quotes]

\* the (shares, purchase_price) of the holding of symbol, None if not held
Held(stocks, symbol) ==
    LET i == FindStock(stocks, symbol)
    IN  IF i = 0 THEN None
        ELSE Some([shares |-> stocks[i].shares,
                   purchase_price |-> stocks[i].purchase_price])

\* what the call found: the holding of symbol and the number of holdings
Before(stocks, symbol) ==
    [held |-> Held(stocks, symbol), count |-> Len(stocks)]

\* every portfolio service call is counted, and the run is cut at MaxCalls
Called ==
    /\ calls' = calls + 1
    /\ UNCHANGED <<cache, now, cacheRet, stockRet, pfRet, otherVars>>

\* PortfolioService.create_portfolio
CreatePortfolio ==
    /\ calls < MaxCalls
    /\ IsNone(portfolios_memory)
    /\ portfolios_memory' = Some(EmptyPortfolio)
    /\ opRet' = [op |-> "create", symbol |-> "", ok |-> TRUE]
    /\ Called

\* PortfolioService.get_portfolio
GetPortfolio(quotes) ==
    /\ calls < MaxCalls
    /\ IF IsNone(portfolios_memory)
       THEN /\ opRet' = NotFound("get", "")
            /\ UNCHANGED portfolios_memory
       ELSE LET portfolio == Get(portfolios_memory)
            IN  /\ portfolios_memory' = Some(UpdatePortfolioValues(portfolio, quotes))
                /\ opRet' = Done("get", "", None, Before(portfolio.stocks, ""), quotes)
    /\ Called

\* PortfolioService.add_stock_to_portfolio
AddStockToPortfolio(symbol, shares, purchase_price, quote, quotes) ==
    /\ calls < MaxCalls
    /\ IF IsNone(portfolios_memory)
       THEN /\ opRet' = NotFound("add", symbol)
            /\ UNCHANGED portfolios_memory
       ELSE LET portfolio == Get(portfolios_memory)
                stock_holding == StockHolding(symbol, shares, purchase_price, quote)
                held == Held(portfolio.stocks, symbol)
                stocks == AddOrMerge(portfolio.stocks, stock_holding)
            IN  /\ IF IsNone(held) THEN TRUE
                   ELSE DecLe(DecAdd(Get(held).shares, shares), Dec(MaxHeld))
                /\ portfolios_memory' =
                      Some(UpdatePortfolioValues([portfolio EXCEPT !.stocks = stocks], quotes))
                /\ opRet' = Done("add", symbol,
                                 Some([shares |-> shares, purchase_price |-> purchase_price]),
                                 Before(portfolio.stocks, symbol), quotes)
    /\ Called

\* PortfolioService.update_stock_in_portfolio
UpdateStockInPortfolio(symbol, new_shares, new_price, quote, quotes) ==
    /\ calls < MaxCalls
    /\ IF IsNone(portfolios_memory)
       THEN /\ opRet' = NotFound("update", symbol)
            /\ UNCHANGED portfolios_memory
       ELSE LET portfolio == Get(portfolios_memory)
                stock_index == FindStock(portfolio.stocks, symbol)
            IN  IF stock_index = 0
                THEN /\ opRet' = NotFound("update", symbol)
                     /\ UNCHANGED portfolios_memory
                ELSE LET stock == ApplyStockUpdate(portfolio.stocks[stock_index],
                                                   new_shares, new_price, quote)
                         stocks == [portfolio.stocks EXCEPT ![stock_index] = stock]
                     IN  /\ portfolios_memory' =
                               Some(UpdatePortfolioValues([portfolio EXCEPT !.stocks = stocks], quotes))
                         /\ opRet' = Done("update", symbol, None,
                                          Before(portfolio.stocks, symbol), quotes)
    /\ Called

\* PortfolioService.remove_stock_from_portfolio
RemoveStockFromPortfolio(symbol, quotes) ==
    /\ calls < MaxCalls
    /\ IF IsNone(portfolios_memory)
       THEN /\ opRet' = NotFound("remove", symbol)
            /\ UNCHANGED portfolios_memory
       ELSE LET portfolio == Get(portfolios_memory)
                stocks == RemoveSymbol(portfolio.stocks, symbol)
            IN  /\ portfolios_memory' =
                      Some(UpdatePortfolioValues([portfolio EXCEPT !.stocks = stocks], quotes))
                /\ opRet' = Done("remove", symbol, None, Before(portfolio.stocks, symbol), quotes)
    /\ Called

NextPortfolio ==
    \/ CreatePortfolio
    \/ \E quotes \in QuoteMaps : GetPortfolio(quotes)
    \/ \E symbol \in Symbols, n \in ShareLots, p \in Prices,
          quote \in Quotes, quotes \in QuoteMaps :
            AddStockToPortfolio(symbol, Dec(n), Dec(p), quote, quotes)
    \/ \E symbol \in Symbols, new_shares \in OptLots, new_price \in OptPrices,
          quote \in Quotes, quotes \in QuoteMaps :
            UpdateStockInPortfolio(symbol, new_shares, new_price, quote, quotes)
    \/ \E symbol \in Symbols, quotes \in QuoteMaps :
            RemoveStockFromPortfolio(symbol, quotes)

SpecPortfolio == Init /\ [][NextPortfolio]_vars


(***************************************************************************)
(* Properties of the portfolio service (checked under SpecPortfolio).      *)
(***************************************************************************)
Stored == Get(portfolios_memory)
Revalued == opRet.op \in {"get", "add", "update", "remove"} /\ opRet.ok

\* sum of a sequence of decimals, first to last
RECURSIVE DecSum(_)
DecSum(seq) ==
    IF seq = <<>> THEN Dec(0)
    ELSE DecAdd(DecSum(SubSeq(seq, 1, Len(seq) - 1)), seq[Len(seq)])

CostBasisOf(h) == DecMul(h.purchase_price, h.shares)

TotalsReconcile ==
    Revalued =>
        LET stocks == Stored.stocks
            tv == DecSum([i \in 1 .. Len(stocks) |-> Get(stocks[i].market_value)])
            tc == DecSum([i \in 1 .. Len(stocks) |-> CostBasisOf(stocks[i])])
        IN  /\ Stored.total_value = Some(tv)
            /\ Stored.total_cost = Some(tc)
            /\ Stored.total_gain_loss = Some(DecSub(tv, tc))

\* two holdings of more than one share with a non-zero total gain, reached
\* by a removal-free sequence ending in an update
TotalsReconcileWitness ==
    /\ Revalued
    /\ opRet.op = "update"
    /\ Len(Stored.stocks) = 2
    /\ \A i \in 1 .. 2 : Stored.stocks[i].shares # Dec(1)
    /\ Get(Stored.total_gain_loss).c # 0

\* the holding of symbol in the stored portfolio
HoldingOf(symbol) == Stored.stocks[FindStock(Stored.stocks, symbol)]

Merged == opRet.op = "add" /\ opRet.ok /\ ~IsNone(opRet.before.held)

\* C7: adding a held symbol sets shares to the sum of the two lots and
\* purchase_price to the share-weighted average, and the merged cost basis
\* (purchase_price x shares) equals the sum of the two lots' cost bases.
AverageCostMergeExact ==
    Merged =>
        LET old == Get(opRet.before.held)
            lot == Get(opRet.lot)
            h == HoldingOf(opRet.symbol)
            cost == DecAdd(DecMul(old.shares, old.purchase_price),
                           DecMul(lot.shares, lot.purchase_price))
        IN  /\ h.shares = DecAdd(old.shares, lot.shares)
            /\ h.purchase_price = DecDiv(cost, h.shares)
            /\ DecMul(h.purchase_price, h.shares) = cost

\* C8: no two holdings of the stored portfolio have the same symbol, and
\* adding a symbol that is already held leaves the number of holdings as
\* it was.
SymbolsUnique ==
    ~IsNone(portfolios_memory) =>
        /\ \A i, j \in 1 .. Len(Stored.stocks) :
              i # j => Stored.stocks[i].symbol # Stored.stocks[j].symbol
        /\ Merged => Len(Stored.stocks) = opRet.before.count

\* a merge into one of two holdings
SymbolsUniqueWitness ==
    /\ Merged
    /\ opRet.before.count = 2
    /\ Len(Stored.stocks) = 2

\* C18: _update_portfolio_values is idempotent: applied once more with the
\* same price lookup to the portfolio it produced, it yields the same
\* holdings (current_price, market_value, gain_loss, gain_loss_percentage)
\* and the same totals.
RevaluationIdempotent ==
    Revalued => UpdatePortfolioValues(Stored, opRet.quotes) = Stored

\* a revalued portfolio of two holdings, one priced by the lookup and one
\* left without a quote, with a non-zero total gain
RevaluationIdempotentWitness ==
    /\ Revalued
    /\ opRet.op = "get"
    /\ Len(Stored.stocks) = 2
    /\ \E i, j \in 1 .. 2 :
          /\ ~IsNone(opRet.quotes[Stored.stocks[i].symbol])
          /\ IsNone(opRet.quotes[Stored.stocks[j].symbol])
    /\ Get(Stored.total_gain_loss).c # 0

\* the holding that adding lot `first` and then lot `second` of symbol to a
\* portfolio without that symbol produces
AddedInOrder(symbol, first, second) ==
    LET a == StockHolding(symbol, first.shares, first.purchase_price, None)
        b == StockHolding(symbol, second.shares, second.purchase_price, None)
    IN  AddOrMerge(AddOrMerge(<<>>, a), b)[1]

\* C19: a holding made of lot A with lot B merged into it has the shares
\* (the sum) and the purchase_price (the share-weighted average) that
\* adding B first and A second produces.
MergeOrderIndependent ==
    Merged =>
        LET A == Get(opRet.before.held)
            B == Get(opRet.lot)
            h == HoldingOf(opRet.symbol)
            swapped == AddedInOrder(opRet.symbol, B, A)
        IN  /\ h.shares = swapped.shares
            /\ h.purchase_price = swapped.purchase_price
            /\ h.shares = DecAdd(A.shares, B.shares)
            /\ AddedInOrder(opRet.symbol, A, B).purchase_price = h.purchase_price

\* two lots that differ in shares and in price were merged
MergeOrderIndependentWitness ==
    /\ Merged
    /\ Get(opRet.before.held).shares # Get(opRet.lot).shares
    /\ Get(opRet.before.held).purchase_price # Get(opRet.lot).purchase_price

\* C20: update_stock_in_portfolio and remove_stock_from_portfolio called
\* for a symbol the existing portfolio does not hold report not-found and
\* leave the stored portfolio as it was.
MissingHoldingNotFound ==
    [][(/\ calls' # calls
        /\ opRet'.op \in {"update", "remove"}
        /\ ~IsNone(portfolios_memory)
        /\ FindStock(Stored.stocks, opRet'.symbol) = 0)
       => (/\ ~opRet'.ok
           /\ portfolios_memory' = portfolios_memory)]_vars

\* C25: after any sequence of portfolio operations total_gain_loss_percentage
\* is derived from the current holdings and prices: total_gain_loss /
\* total_cost x 100 when total_cost > 0, and with total_cost = 0 (the last
\* holding removed) no percentage computed from removed holdings is kept.
PercentageNeverStale ==
    Revalued =>
        LET tc == Get(Stored.total_cost)
        IN  IF DecGtZero(tc)
            THEN Stored.total_gain_loss_percentage =
                    Some(DecMul(DecDiv(Get(Stored.total_gain_loss), tc), Dec(100)))
            ELSE IsNone(Stored.total_gain_loss_percentage)

\* C30: after _update_portfolio_values every holding whose current_price is
\* set has market_value = current_price x shares, also when the lookup gave
\* a price in an earlier revaluation and none in this one.
PriceValueConsistent ==
    Revalued =>
        \A i \in 1 .. Len(Stored.stocks) :
            LET h == Stored.stocks[i]
            IN  ~IsNone(h.current_price) =>
                    h.market_value = Some(DecMul(Get(h.current_price), h.shares))


(***************************************************************************)
(* The result cache driven directly: get and put on a cache that already   *)
(* holds entries, with the clock advancing in between.                     *)
(***************************************************************************)
AnalysisSymbols == <<"AAPL", "MSFT">>

\* the i-th (symbol, user) pair in order of first analysis
KeyOf(i) == CacheKey(AnalysisSymbols[(i % 2) + 1], (i + 1) \div 2)

\* insertion timestamps of a cache filled by earlier analyses: all within
\* the same second, or one per second
FillPatterns == {"same", "distinct"}
FillStamp(pattern, i) ==
    CASE pattern = "same" -> StartTime
      [] pattern = "distinct" -> i

FillSizes == {cache_max - 1, cache_max}

Filled(n, pattern) ==
    [i \in 1 .. n |->
        [key |-> KeyOf(i),
         data |-> StockAnalysis(KeyOf(i)[1], LLMBullish, <<>>, FillStamp(pattern, i)),
         timestamp |-> FillStamp(pattern, i)]]

InitCache ==
    /\ \E n \in FillSizes, pattern \in FillPatterns :
          /\ cache = Filled(n, pattern)
          /\ now = StartTime
    /\ cacheRet = NoCall
    /\ stockRet = NoCall
    /\ pfRet = NoCall
    /\ portfolios_memory = None
    /\ opRet = NoCall
    /\ calls = 0
    /\ sessions = <<>>
    /\ issued = 0
    /\ chatRet = NoCall
    /\ scoreRet = NoCall
    /\ newsRet = NoCall
    /\ tasks = <<>>

\* keys a direct get / put uses: the first pre-filled pair and NumFresh
\* pairs that were never analysed
DirectKeys == {KeyOf(1)} \cup {KeyOf(cache_max + i) : i \in 1 .. NumFresh}
DirectData ==
    {StockAnalysis("AAPL", CreateFallbackAnalysis, <<>>, 0),
     StockAnalysis("AAPL", LLMTerse, <<>>, 0)}

\* the clock readings of a run: up to 1 + ExtraTime seconds after the
\* start, and the same one second short of a TTL later
TickSteps == {1, cache_ttl - 1}
ClockReadings ==
    {StartTime + a + b * (cache_ttl - 1) : a \in 0 .. 1 + ExtraTime, b \in 0 .. 1}

\* time passes
Tick(d) ==
    /\ now + d \in ClockReadings
    /\ now' = now + d
    /\ UNCHANGED <<cache, cacheRet, stockRet, pfRet, portfolios_memory, opRet, calls, otherVars>>

\* a call of _get_from_cache
CacheGet(key) ==
    LET got == GetFromCache(cache, key, now)
    IN  /\ calls < MaxCacheOps
        /\ calls' = calls + 1
        /\ cache' = got.cache
        /\ cacheRet' = [op |-> "get", key |-> key, value |-> got.value,
                        before |-> cache, at |-> now]
        /\ UNCHANGED <<now, stockRet, pfRet, portfolios_memory, opRet, otherVars>>

\* a call of _cache_result
CachePut(key, data) ==
    /\ calls < MaxCacheOps
    /\ calls' = calls + 1
    /\ cache' = CacheResult(cache, key, data, now)
    /\ cacheRet' = [op |-> "put", key |-> key, value |-> Some(data),
                    before |-> cache, at |-> now]
    /\ UNCHANGED <<now, stockRet, pfRet, portfolios_memory, opRet, otherVars>>

NextCache ==
    \/ \E d \in TickSteps : Tick(d)
    \/ \E key \in DirectKeys : CacheGet(key)
    \/ \E key \in DirectKeys, data \in DirectData : CachePut(key, data)

SpecCache == InitCache /\ [][NextCache]_vars


(***************************************************************************)
(* Properties of the result cache (checked under SpecCache).               *)
(***************************************************************************)
ItemsOf(items) == {items[i] : i \in 1 .. Len(items)}
KeysOf(items) == {items[i].key : i \in 1 .. Len(items)}
ItemAt(items, key) == CHOOSE it \in ItemsOf(items) : it.key = key

\* C2: a get of a key stored less than cache_ttl seconds ago returns the
\* stored value and keeps the cache as it was; a get at or after the TTL
\* returns nothing and removes that entry and no other.
CacheTTL ==
    (cacheRet.op = "get" /\ cacheRet.key \in KeysOf(cacheRet.before)) =>
        LET stored == ItemAt(cacheRet.before, cacheRet.key)
        IN  IF cacheRet.at - stored.timestamp < cache_ttl
            THEN /\ cacheRet.value = Some(stored.data)
                 /\ cache = cacheRet.before
            ELSE /\ cacheRet.value = None
                 /\ cacheRet.key \notin KeysOf(cache)
                 /\ ItemsOf(cache) = ItemsOf(cacheRet.before) \ {stored}
                 /\ Len(cache) = Len(cacheRet.before) - 1

\* a get exactly one TTL after the entry was stored
CacheTTLWitness ==
    /\ cacheRet.op = "get"
    /\ cacheRet.key \in KeysOf(cacheRet.before)
    /\ cacheRet.at - ItemAt(cacheRet.before, cacheRet.key).timestamp = cache_ttl
    /\ Len(cache) = Len(cacheRet.before) - 1

\* C4: a put of a new key that makes the cache hold cache_max + 1 entries
\* evicts exactly cache_evict entries, none of them newer than an entry that
\* stays, the inserted entry stays, and cache_max + 1 - cache_evict entries
\* remain; a put that leaves at most cache_max entries evicts nothing.
CacheSizeBound ==
    cacheRet.op = "put" =>
        LET before == cacheRet.before
            fresh == cacheRet.key \notin KeysOf(before)
            held == KeysOf(before) \cup {cacheRet.key}
            evicted == held \ KeysOf(cache)
            entry == [key |-> cacheRet.key, data |-> Get(cacheRet.value),
                      timestamp |-> cacheRet.at]
        IN  /\ KeysOf(cache) \subseteq held
            /\ IF fresh /\ Len(before) = cache_max
               THEN /\ Cardinality(evicted) = cache_evict
                    /\ cacheRet.key \notin evicted
                    /\ entry \in ItemsOf(cache)
                    /\ Len(cache) = cache_max + 1 - cache_evict
                    /\ ItemsOf(cache) \subseteq ItemsOf(before) \cup {entry}
                    /\ \A e \in evicted, it \in ItemsOf(cache) :
                          ItemAt(before, e).timestamp <= it.timestamp
               ELSE /\ evicted = {}
                    /\ entry \in ItemsOf(cache)
                    /\ Len(cache) = Cardinality(held)

\* the put of a 101st key
CacheSizeBoundWitness ==
    /\ cacheRet.op = "put"
    /\ cacheRet.key \notin KeysOf(cacheRet.before)
    /\ Len(cacheRet.before) = cache_max
    /\ Len(cache) = cache_max + 1 - cache_evict

\* C29: after any sequence of puts and gets executed one at a time the
\* cache holds at most cache_max entries, and the entry a put stored is in
\* the cache when the put returns: it is never among the evicted ones, also
\* when entries carry the same timestamp or the put overwrites a key.
CachePutKept ==
    /\ Len(cache) <= cache_max
    /\ cacheRet.op = "put" =>
          /\ cacheRet.key \in KeysOf(cache)
          /\ ItemAt(cache, cacheRet.key) =
                [key |-> cacheRet.key, data |-> Get(cacheRet.value),
                 timestamp |-> cacheRet.at]
          /\ Cardinality(KeysOf(cache)) = Len(cache)

\* the put of a 101st key at the very second every other entry was stored:
\* the evicted entries and the stored one carry the same timestamp
CachePutKeptWitness ==
    /\ cacheRet.op = "put"
    /\ Len(cacheRet.before) = cache_max
    /\ cacheRet.key \notin KeysOf(cacheRet.before)
    /\ \A it \in ItemsOf(cacheRet.before) : it.timestamp = cacheRet.at
    /\ Len(cache) < Len(cacheRet.before)


(***************************************************************************)
(* Portfolio analysis pipeline (AnalysisService.analyze_portfolio).        *)
(***************************************************************************)
\* risk_scores of _calculate_overall_risk_level
RiskScore(level) ==
    CASE level = "very_low" -> 1
      [] level = "low" -> 2
      [] level = "medium" -> 3
      [] level = "high" -> 4
      [] level = "very_high" -> 5

RECURSIVE SumRisk(_, _)
SumRisk(analyses, n) ==
    IF n = 0 THEN 0 ELSE SumRisk(analyses, n - 1) + RiskScore(analyses[n].risk_level)

\* AnalysisService._calculate_overall_risk_level; avg_risk <= k + 0.5 is
\* compared as 2 * sum <= (2k + 1) * len
CalculateOverallRiskLevelStrict(analyses) ==
    IF analyses = <<>> THEN "medium"
    ELSE LET total == 2 * SumRisk(analyses, Len(analyses))
             n == Len(analyses)
         IN  IF total < 3 * n THEN "very_low"
             ELSE IF total < 5 * n THEN "low"
             ELSE IF total < 7 * n THEN "medium"
             ELSE IF total < 9 * n THEN "high"
             ELSE "very_high"
CalculateOverallRiskLevel(analyses) ==
    IF analyses = <<>> THEN "medium"
    ELSE LET total == 2 * SumRisk(analyses, Len(analyses))
             n == Len(analyses)
         IN  IF total <= 3 * n THEN "very_low"
             ELSE IF total <= 5 * n THEN "low"
             ELSE IF total <= 7 * n THEN "medium"
             ELSE IF total <= 9 * n THEN "high"
             ELSE "very_high"

\* AnalysisService._generate_portfolio_summary: which narrative set it returns
GeneratePortfolioSummary(analyses) ==
    IF analyses = <<>> THEN "unavailable" ELSE "summary"

\* the loop of analyze_portfolio from holding i on: a holding whose analysis
\* raises is skipped, the others are appended in turn
RECURSIVE AnalyzeHoldings(_, _, _, _, _, _, _)
AnalyzeHoldingsAborting(items, t, stocks, user, envs, i, individual_analyses) ==
    IF i > Len(stocks)
    THEN [cache |-> items, individual_analyses |-> individual_analyses]
    ELSE LET run == AnalyzeStock(items, t, stocks[i], user, envs[i])
         IN  IF run.raised
             THEN [cache |-> run.cache, individual_analyses |-> individual_analyses]
             ELSE AnalyzeHoldings(run.cache, t, stocks, user, envs, i + 1,
                                  Append(individual_analyses, Get(run.result)))
AnalyzeHoldings(items, t, stocks, user, envs, i, individual_analyses) ==
    IF i > Len(stocks)
    THEN [cache |-> items, individual_analyses |-> individual_analyses]
    ELSE LET run == AnalyzeStock(items, t, stocks[i], user, envs[i])
         IN  AnalyzeHoldings(run.cache, t, stocks, user, envs, i + 1,
                             IF run.raised THEN individual_analyses
                             ELSE Append(individual_analyses, Get(run.result)))

\* AnalysisService.analyze_portfolio: the PortfolioAnalysis and the cache left
AnalyzePortfolio(items, t, stocks, user, envs) ==
    LET done == AnalyzeHoldings(items, t, stocks, user, envs, 1, <<>>)
    IN  [cache |-> done.cache,
         individual_stocks |-> done.individual_analyses,
         overall_analysis |-> GeneratePortfolioSummary(done.individual_analyses),
         overall_risk_level |-> CalculateOverallRiskLevel(done.individual_analyses)]

(***************************************************************************)
(* The analysis service driven by requests, every collaborator up or down  *)
(* at each call.                                                           *)
(***************************************************************************)
Users == 1 .. NumUsers
Collaborators == {"polygon_news", "scraper", "market_data", "index", "search"}

\* what the collaborators do during one call when those in `down` are
\* unavailable; the structured call returns llm or fails (None)
Env(down, llm) ==
    [polygon_news |-> IF "polygon_news" \in down THEN <<>> ELSE <<"u1", "u2">>,
     scraped |-> IF "scraper" \in down THEN <<>> ELSE <<"u2", "u3">>,
     market_data |-> IF "market_data" \in down THEN <<>> ELSE <<"bar">>,
     index_ok |-> "index" \notin down,
     search_ok |-> "search" \notin down,
     llm |-> llm]

Degraded == Collaborators \ {"index", "search"}

\* at most MaxFaults collaborators down, or every degradable one together;
\* the structured call's outcome matters only where the call is reached
Envs ==
    {e \in {Env(down, llm) :
                down \in {d \in SUBSET Collaborators :
                             Cardinality(d) <= MaxFaults \/ d = Degraded},
                llm \in LLMOutcomes} :
        (e.index_ok /\ e.search_ok) \/ e.llm = None}

\* what each holding of a portfolio analysis meets
HoldingEnvs ==
    {Env({}, Some(LLMBullish)), Env(Degraded, None), Env({"index"}, None),
     Env({"search"}, Some(LLMBullish))}

FanoutSymbols == {"AAPL", "MSFT", "NVDA"}
\* holdings lists of a portfolio: distinct symbols, at most MaxHoldings
HoldingLists ==
    {stocks \in UNION {[1 .. n -> FanoutSymbols] : n \in 0 .. MaxHoldings} :
        \A i, j \in 1 .. Len(stocks) : i # j => stocks[i] # stocks[j]}

\* a request POST /stock/{symbol}
AnalyzeStockCall(symbol, user, env) ==
    /\ calls < MaxRuns
    /\ LET run == AnalyzeStock(cache, now, symbol, user, env)
       IN  /\ cache' = run.cache
           /\ stockRet' = [op |-> "analyze_stock", symbol |-> symbol, user |-> user,
                           env |-> env, raised |-> run.raised, hit |-> run.hit,
                           result |-> run.result, called |-> run.called,
                           before |-> cache, after |-> run.cache, at |-> now]
    /\ calls' = calls + 1
    /\ UNCHANGED <<now, cacheRet, pfRet, portfolios_memory, opRet, otherVars>>

\* a request POST /portfolio/{portfolio_id}; it closes the run
AnalyzePortfolioCall(stocks, user, envs) ==
    /\ calls < MaxRuns
    /\ LET run == AnalyzePortfolio(cache, now, stocks, user, envs)
       IN  /\ cache' = run.cache
           /\ pfRet' = [op |-> "analyze_portfolio", stocks |-> stocks, user |-> user,
                        envs |-> envs, completed |-> TRUE,
                        individual_stocks |-> run.individual_stocks,
                        overall_analysis |-> run.overall_analysis,
                        overall_risk_level |-> run.overall_risk_level,
                        before |-> cache, at |-> now]
    /\ calls' = MaxRuns
    /\ UNCHANGED <<now, cacheRet, stockRet, portfolios_memory, opRet, otherVars>>

NextAnalysis ==
    \/ \E d \in TickSteps : Tick(d)
    \/ \E symbol \in {AnalysisSymbols[i] : i \in 1 .. Len(AnalysisSymbols)},
          user \in Users, env \in Envs :
            AnalyzeStockCall(symbol, user, env)
    \/ \E stocks \in HoldingLists, user \in Users :
          \E envs \in [1 .. Len(stocks) -> HoldingEnvs] :
            AnalyzePortfolioCall(stocks, user, envs)

SpecAnalysis == Init /\ [][NextAnalysis]_vars


(***************************************************************************)
(* Properties of the analysis pipelines.                                   *)
(***************************************************************************)
Analyzed == stockRet.op = "analyze_stock"

\* the structured reasoning call was made during the last analyze_stock and failed
LLMFailed ==
    IF Analyzed THEN "llm" \in stockRet.called /\ IsNone(stockRet.env.llm) ELSE FALSE

\* C1: whenever the structured reasoning call of analyze_stock fails, whatever
\* the news sources and the market data provider returned, the call does not
\* raise and returns a StockAnalysis with recommendation_action hold,
\* risk_level medium, confidence_score 0.3 and non-empty narrative fields
FallbackOnLLMFailure ==
    LLMFailed =>
        /\ ~stockRet.raised
        /\ ~IsNone(stockRet.result)
        /\ LET a == Get(stockRet.result)
           IN  /\ a.symbol = stockRet.symbol
               /\ a.recommendation_action = "hold"
               /\ a.risk_level = "medium"
               /\ a.confidence_score = 3
               /\ a.qualitative_analysis # ""
               /\ a.quantitative_analysis # ""
               /\ a.user_portfolio_fit # ""
               /\ a.recommendation # ""

\* the structured call failed with both news sources and the market data
\* provider down as well, and the fallback analysis came back
FallbackOnLLMFailureWitness ==
    /\ LLMFailed
    /\ stockRet.env.polygon_news = <<>>
    /\ stockRet.env.market_data = <<>>
    /\ ~stockRet.raised
    /\ Get(stockRet.result).recommendation_action = "hold"

\* the entry of the last analyze_stock's key was in the cache and unexpired
\* when the call started
UnexpiredEntry ==
    IF Analyzed
    THEN LET key == CacheKey(stockRet.symbol, stockRet.user)
         IN  IF CacheHas(stockRet.before, key)
             THEN stockRet.at - CacheItem(stockRet.before, key).timestamp < cache_ttl
             ELSE FALSE
    ELSE FALSE

\* C3: analyze_stock for a (symbol, user) whose cache entry is unexpired
\* returns the cached analysis, calls no news source, market data provider,
\* vector store operation or reasoning engine, and leaves the cache as it was
CacheHitShortCircuit ==
    UnexpiredEntry =>
        /\ ~stockRet.raised
        /\ stockRet.hit
        /\ stockRet.result =
             Some(CacheItem(stockRet.before,
                            CacheKey(stockRet.symbol, stockRet.user)).data)
        /\ stockRet.called = {}
        /\ stockRet.after = stockRet.before

\* a hit on an entry one second short of expiry, while every collaborator
\* would have answered differently from what is cached
CacheHitShortCircuitWitness ==
    /\ UnexpiredEntry
    /\ stockRet.hit
    /\ stockRet.at - Get(stockRet.result).analysis_date = cache_ttl - 1
    /\ stockRet.env.llm # Some(LLMBullish)
    /\ Get(stockRet.result).recommendation_action = "buy"

FannedOut == pfRet.op = "analyze_portfolio"

\* the analysis of holding i of the last analyze_portfolio did not raise: it
\* was served from the cache, or both vector store operations worked
HoldingSucceeds(i) ==
    LET key == CacheKey(pfRet.stocks[i], pfRet.user)
        fresh == IF CacheHas(pfRet.before, key)
                 THEN pfRet.at - CacheItem(pfRet.before, key).timestamp < cache_ttl
                 ELSE FALSE
    IN  fresh \/ (pfRet.envs[i].index_ok /\ pfRet.envs[i].search_ok)

\* the symbols of the holdings from i on whose analysis did not raise
RECURSIVE SucceededFrom(_)
SucceededFrom(i) ==
    IF i > Len(pfRet.stocks) THEN <<>>
    ELSE (IF HoldingSucceeds(i) THEN <<pfRet.stocks[i]>> ELSE <<>>)
         \o SucceededFrom(i + 1)

\* C9: analyze_portfolio completes whichever holdings' analyses raise, and
\* individual_stocks holds exactly one analysis per holding that succeeded,
\* none for a holding that failed, in the order of the portfolio's holdings
FanOutIsolation ==
    FannedOut =>
        /\ pfRet.completed
        /\ [i \in 1 .. Len(pfRet.individual_stocks) |->
                pfRet.individual_stocks[i].symbol] = SucceededFrom(1)

\* the first holding's analysis raised and the second one's was returned
FanOutIsolationWitness ==
    /\ FannedOut
    /\ Len(pfRet.stocks) = 2
    /\ ~HoldingSucceeds(1)
    /\ HoldingSucceeds(2)
    /\ Len(pfRet.individual_stocks) = 1
    /\ pfRet.individual_stocks[1].symbol = pfRet.stocks[2]

\* C10: whichever of the market data provider, the news sources and the
\* vector store (indexing or search) is unavailable, analyze_stock does not
\* raise and returns a StockAnalysis
DegradedNeverRaises ==
    Analyzed => ~stockRet.raised /\ ~IsNone(stockRet.result)


(***************************************************************************)
(* analyze_stock on a warm cache: earlier analyses filled it, the oldest   *)
(* of them with the structured call failing, so that its entry is the      *)
(* fallback analysis.                                                      *)
(***************************************************************************)
FallbackKey == KeyOf(1)

FilledAfterFallback(n, pattern) ==
    [Filled(n, pattern) EXCEPT
        ![1].data = StockAnalysis(FallbackKey[1], CreateFallbackAnalysis, <<>>,
                                  FillStamp(pattern, 1))]

InitWarm ==
    /\ \E n \in FillSizes, pattern \in FillPatterns :
          /\ cache = FilledAfterFallback(n, pattern)
          /\ now = StartTime
    /\ cacheRet = NoCall
    /\ stockRet = NoCall
    /\ pfRet = NoCall
    /\ portfolios_memory = None
    /\ opRet = NoCall
    /\ calls = 0
    /\ sessions = <<>>
    /\ issued = 0
    /\ chatRet = NoCall
    /\ scoreRet = NoCall
    /\ newsRet = NoCall
    /\ tasks = <<>>

\* every collaborator answers; the structured call fails or succeeds
WarmEnvs == {Env({}, None), Env({}, Some(LLMTerse))}

NextWarm ==
    \/ \E d \in TickSteps : Tick(d)
    \/ \E key \in DirectKeys, env \in WarmEnvs : AnalyzeStockCall(key[1], key[2], env)

SpecWarm == InitWarm /\ [][NextWarm]_vars

IsFallback(analysis) ==
    /\ analysis.recommendation_action = "hold"
    /\ analysis.risk_level = "medium"
    /\ analysis.confidence_score = 3
    /\ analysis.recommendation = CreateFallbackAnalysis.recommendation

\* when the fallback of FallbackKey was stored
FallbackStamps == {FillStamp(pattern, 1) : pattern \in FillPatterns}

\* C27 as stated: the fallback stored for FallbackKey is what every
\* analyze_stock for that key returns during the TTL that follows the
\* store, without the structured call being made
FallbackServedForTTL ==
    (/\ Analyzed
     /\ CacheKey(stockRet.symbol, stockRet.user) = FallbackKey
     /\ \A stamp \in FallbackStamps : stockRet.at - stamp < cache_ttl) =>
        /\ ~stockRet.raised
        /\ ~IsNone(stockRet.result)
        /\ IsFallback(Get(stockRet.result))
        /\ "llm" \notin stockRet.called

\* C27: when the structured call fails during analyze_stock the fallback
\* analysis is stored under the (symbol, user) key with the time of the
\* call, like any other result; and as long as that entry is in the cache
\* (the size limit has not evicted it) and less than a TTL old,
\* analyze_stock for the key returns it without making the structured call
FallbackCached ==
    /\ LLMFailed =>
          /\ ~stockRet.raised
          /\ IsFallback(Get(stockRet.result))
          /\ CacheHas(stockRet.after, <<stockRet.symbol, stockRet.user>>)
          /\ CacheItem(stockRet.after, <<stockRet.symbol, stockRet.user>>) =
                [key |-> <<stockRet.symbol, stockRet.user>>,
                 data |-> Get(stockRet.result),
                 timestamp |-> stockRet.at]
    /\ (UnexpiredEntry /\
        IsFallback(CacheItem(stockRet.before,
                             <<stockRet.symbol, stockRet.user>>).data)) =>
          /\ ~stockRet.raised
          /\ stockRet.result =
               Some(CacheItem(stockRet.before,
                              <<stockRet.symbol, stockRet.user>>).data)
          /\ "llm" \notin stockRet.called

\* a fallback stored by a call of this run for a key that was not cached is
\* returned one second short of a TTL later, although the structured call
\* would succeed by then
FallbackCachedWitness ==
    /\ Analyzed
    /\ stockRet.hit
    /\ CacheKey(stockRet.symbol, stockRet.user) # FallbackKey
    /\ IsFallback(Get(stockRet.result))
    /\ stockRet.at - Get(stockRet.result).analysis_date = cache_ttl - 1
    /\ stockRet.env.llm = Some(LLMTerse)

(***************************************************************************)
(* Chat service (services/chat.py).  self.sessions is a dict keyed by      *)
(* session id; the model keeps the sessions in insertion order.  A session *)
(* object is shared with the dict, so what send_message appends to it is   *)
(* in the store at once.                                                   *)
(***************************************************************************)
\* timedelta(days=7), in seconds
session_ttl == 604800

apology ==
    "I apologize, but I'm having trouble processing your request right now. Please try again later."

\* index of the session with this id, 0 when absent
RECURSIVE SessionIndex(_, _, _)
SessionIndex(ss, id, i) ==
    IF i > Len(ss) THEN 0
    ELSE IF ss[i].id = id THEN i
    ELSE SessionIndex(ss, id, i + 1)

\* ChatService.get_chat_session: self.sessions.get(session_id)
GetChatSession(ss, id) ==
    LET i == SessionIndex(ss, id, 1)
    IN  IF i = 0 THEN None ELSE Some(ss[i])

\* self.sessions[session.id] = session, and the in-place change of a stored session
PutSession(ss, session) ==
    LET i == SessionIndex(ss, session.id, 1)
    IN  IF i = 0 THEN Append(ss, session) ELSE [ss EXCEPT ![i] = session]

\* ChatService.create_chat_session; n session ids were issued before
CreateChatSession(ss, n, user_id, stock_symbol, t) ==
    LET session == [id |-> n + 1, user_id |-> user_id, stock_symbol |-> stock_symbol,
                    messages |-> <<>>, created_at |-> t, updated_at |-> t]
    IN  [session |-> session, sessions |-> PutSession(ss, session), issued |-> n + 1]

ChatMessage(role, content, t) == [role |-> role, content |-> content, timestamp |-> t]

\* chat.py:131-140: the documents with a url and a title, as NewsSource
RECURSIVE SourcesOf(_)
SourcesOf(docs) ==
    IF docs = <<>> THEN <<>>
    ELSE (IF Head(docs).url # "" /\ Head(docs).title # ""
          THEN <<[url |-> Head(docs).url, title |-> Head(docs).title]>>
          ELSE <<>>)
         \o SourcesOf(Tail(docs))

\* session.messages[-6:]
RecentMessages(messages) ==
    SubSeq(messages, IF Len(messages) > 6 THEN Len(messages) - 5 ELSE 1, Len(messages))

\* ChatService._create_chat_prompt: the conversation history is built from
\* recent_messages[:-1]
ConversationHistory(recent_messages) ==
    SubSeq(recent_messages, 1, Len(recent_messages) - 1)

\* ChatService._generate_ai_response: the document search runs outside the
\* try, self.llm.invoke inside it; history is the conversation history of
\* the prompt, None when no prompt was built
GenerateAIResponseKeepSources(session, env) ==
    IF ~env.search_ok
    THEN [raised |-> TRUE, content |-> "", sources |-> <<>>, history |-> None]
    ELSE LET sources == IF ~IsNone(session.stock_symbol)
                        THEN SourcesOf(env.docs) ELSE <<>>
             history == Some(ConversationHistory(RecentMessages(session.messages)))
         IN  [raised |-> FALSE,
              content |-> IF IsNone(env.llm) THEN apology ELSE Get(env.llm),
              sources |-> sources, history |-> history]
GenerateAIResponse(session, env) ==
    IF ~env.search_ok
    THEN [raised |-> TRUE, content |-> "", sources |-> <<>>, history |-> None]
    ELSE LET sources == IF ~IsNone(session.stock_symbol)
                        THEN SourcesOf(env.docs) ELSE <<>>
             history == Some(ConversationHistory(RecentMessages(session.messages)))
         IN  IF IsNone(env.llm)
             THEN [raised |-> FALSE, content |-> apology, sources |-> <<>>,
                   history |-> history]
             ELSE [raised |-> FALSE, content |-> Get(env.llm), sources |-> sources,
                   history |-> history]

\* what a send_message that raised leaves
ChatRaised(error, ss, n) ==
    [raised |-> TRUE, error |-> error, sessions |-> ss, issued |-> n, response |-> None,
     history |-> None]

\* ChatService.send_message at time t
SendMessage(ss, n, t, request, user, env) ==
    LET found == IF IsNone(request.session_id) THEN None
                 ELSE GetChatSession(ss, Get(request.session_id))
        invalid == IF IsNone(request.session_id) THEN FALSE
                   ELSE IF IsNone(found) THEN TRUE
                   ELSE Get(found).user_id # user
    IN  IF invalid THEN ChatRaised("Invalid session ID", ss, n)
        ELSE LET created == CreateChatSession(ss, n, user, request.stock_symbol, t)
                 session == IF IsNone(request.session_id) THEN created.session
                            ELSE Get(found)
                 ss1 == IF IsNone(request.session_id) THEN created.sessions ELSE ss
                 n1 == IF IsNone(request.session_id) THEN created.issued ELSE n
                 asked == [session EXCEPT
                             !.messages = Append(@, ChatMessage("user", request.message, t))]
                 ai == GenerateAIResponse(asked, env)
             IN  IF ai.raised
                 THEN ChatRaised("search", PutSession(ss1, asked), n1)
                 ELSE LET ai_message == ChatMessage("assistant", ai.content, t)
                          answered == [asked EXCEPT !.messages = Append(@, ai_message),
                                                    !.updated_at = t]
                      IN  [raised |-> FALSE, error |-> "",
                           sessions |-> PutSession(ss1, answered), issued |-> n1,
                           response |-> Some([session_id |-> session.id,
                                              message |-> ai_message,
                                              sources |-> ai.sources]),
                           history |-> ai.history]

\* ChatService.get_chat_history
GetChatHistoryAnyUser(ss, id, user_id) ==
    LET session == GetChatSession(ss, id)
    IN  IF IsNone(session) THEN <<>> ELSE Get(session).messages
GetChatHistory(ss, id, user_id) ==
    LET session == GetChatSession(ss, id)
    IN  IF IsNone(session) THEN <<>>
        ELSE IF Get(session).user_id # user_id THEN <<>>
        ELSE Get(session).messages

\* ChatService.delete_chat_session: what it returns and the store it leaves
DeleteChatSession(ss, id, user_id) ==
    LET session == GetChatSession(ss, id)
        refused == IF IsNone(session) THEN TRUE ELSE Get(session).user_id # user_id
    IN  IF refused THEN [deleted |-> FALSE, sessions |-> ss]
        ELSE [deleted |-> TRUE, sessions |-> SelectSeq(ss, LAMBDA x : x.id # id)]

\* ChatService.get_user_chat_sessions: the user's sessions, most recently
\* updated first (list.sort is stable, also with reverse=True)
GetUserChatSessions(ss, user_id) ==
    LET mine == SelectSeq(ss, LAMBDA x : x.user_id = user_id)
        rank(i) == 1 + Cardinality({j \in 1 .. Len(mine) :
                                      \/ mine[j].updated_at > mine[i].updated_at
                                      \/ mine[j].updated_at = mine[i].updated_at /\ j < i})
    IN  [k \in 1 .. Len(mine) |-> mine[CHOOSE i \in 1 .. Len(mine) : rank(i) = k]]

\* ChatService._clean_old_sessions at time t
CleanOldSessionsInclusive(ss, t) ==
    LET cutoff_date == t - session_ttl
    IN  SelectSeq(ss, LAMBDA x : ~(x.updated_at <= cutoff_date))
CleanOldSessions(ss, t) ==
    LET cutoff_date == t - session_ttl
    IN  SelectSeq(ss, LAMBDA x : ~(x.updated_at < cutoff_date))


(***************************************************************************)
(* The chat service driven by requests, and its sweep called directly      *)
(* (nothing in the service calls _clean_old_sessions).                     *)
(***************************************************************************)
\* documents the search returns: one usable as a source, one without a url
ChatDocs == <<[url |-> "u1", title |-> "t1"], [url |-> "", title |-> "t2"]>>

\* what the collaborators do during one turn: the search raises, or returns
\* ChatDocs and the reasoning engine answers or fails (None)
ChatEnvs ==
    {[search_ok |-> FALSE, docs |-> <<>>, llm |-> None],
     [search_ok |-> TRUE, docs |-> ChatDocs, llm |-> None],
     [search_ok |-> TRUE, docs |-> ChatDocs, llm |-> Some("answer")]}

ChatSymbols == {None, Some("AAPL")}

\* session ids a request can carry: those issued so far and one never issued
KnownIds == 1 .. issued + 1

\* ChatRequest: a new conversation about a stock or none, or a turn on a session
ChatRequests ==
    {[message |-> "hello", session_id |-> None, stock_symbol |-> sym] : sym \in ChatSymbols}
    \cup {[message |-> "hello", session_id |-> Some(id), stock_symbol |-> None] :
            id \in KnownIds}

\* clock readings of a chat run: around the start and one idle period later
ChatTickSteps == {1, session_ttl}
ChatClockReadings ==
    {StartTime + a + b * session_ttl : a \in 0 .. 1 + ExtraTime, b \in 0 .. 1}

ChatTick(d) ==
    /\ now + d \in ChatClockReadings
    /\ now' = now + d
    /\ UNCHANGED <<cache, cacheRet, stockRet, pfRet, portfolios_memory, opRet, calls,
                   otherVars>>

\* every chat call is counted, and the run is cut at MaxChatOps
ChatCalled ==
    /\ calls' = calls + 1
    /\ UNCHANGED <<cache, now, cacheRet, stockRet, pfRet, portfolios_memory, opRet,
                   scoreRet, runVars>>

\* POST /chat/sessions
ChatCreate(user, stock_symbol) ==
    /\ calls < MaxChatOps
    /\ LET created == CreateChatSession(sessions, issued, user, stock_symbol, now)
       IN  /\ sessions' = created.sessions
           /\ issued' = created.issued
           /\ chatRet' = [op |-> "create", user |-> user, id |-> created.session.id,
                          before |-> sessions, at |-> now]
    /\ ChatCalled

\* POST /chat/message
ChatSend(request, user, env) ==
    /\ calls < MaxChatOps
    /\ LET sent == SendMessage(sessions, issued, now, request, user, env)
       IN  /\ sessions' = sent.sessions
           /\ issued' = sent.issued
           /\ chatRet' = [op |-> "send", user |-> user, request |-> request, env |-> env,
                          raised |-> sent.raised, error |-> sent.error,
                          response |-> sent.response,
                          before |-> sessions, issued_before |-> issued, at |-> now]
    /\ ChatCalled

\* GET /chat/sessions/{session_id}/history
ChatHistory(id, user) ==
    /\ calls < MaxChatOps
    /\ chatRet' = [op |-> "history", user |-> user, id |-> id,
                   messages |-> GetChatHistory(sessions, id, user),
                   before |-> sessions, at |-> now]
    /\ UNCHANGED <<sessions, issued>>
    /\ ChatCalled

\* DELETE /chat/sessions/{session_id}
ChatDelete(id, user) ==
    /\ calls < MaxChatOps
    /\ LET done == DeleteChatSession(sessions, id, user)
       IN  /\ sessions' = done.sessions
           /\ chatRet' = [op |-> "delete", user |-> user, id |-> id,
                          deleted |-> done.deleted, before |-> sessions, at |-> now]
    /\ UNCHANGED issued
    /\ ChatCalled

\* GET /chat/sessions
ChatList(user) ==
    /\ calls < MaxChatOps
    /\ chatRet' = [op |-> "list", user |-> user,
                   listed |-> GetUserChatSessions(sessions, user),
                   before |-> sessions, at |-> now]
    /\ UNCHANGED <<sessions, issued>>
    /\ ChatCalled

\* a call of _clean_old_sessions
ChatSweep ==
    /\ calls < MaxChatOps
    /\ sessions' = CleanOldSessions(sessions, now)
    /\ chatRet' = [op |-> "sweep", before |-> sessions, at |-> now]
    /\ UNCHANGED issued
    /\ ChatCalled

\* the requests the chat routes serve
ChatRequestStep ==
    \/ \E user \in Users, sym \in ChatSymbols : ChatCreate(user, sym)
    \/ \E request \in ChatRequests, user \in Users, env \in ChatEnvs :
          ChatSend(request, user, env)
    \/ \E id \in KnownIds, user \in Users : ChatHistory(id, user)
    \/ \E id \in KnownIds, user \in Users : ChatDelete(id, user)
    \/ \E user \in Users : ChatList(user)

NextChat ==
    \/ \E d \in ChatTickSteps : ChatTick(d)
    \/ ChatRequestStep
    \/ ChatSweep

SpecChat == Init /\ [][NextChat]_vars


(***************************************************************************)
(* Properties of the chat service (checked under SpecChat).                *)
(***************************************************************************)
SessionsOf(ss) == {ss[i] : i \in 1 .. Len(ss)}

\* the session of this id among ss as the caller user may use it: None when
\* there is none or it belongs to someone else
OwnedSession(ss, id, user) ==
    LET own == {x \in SessionsOf(ss) : x.id = id /\ x.user_id = user}
    IN  IF own = {} THEN None ELSE Some(CHOOSE x \in own : TRUE)

Sent == chatRet.op = "send"
TurnIsNew == IsNone(chatRet.request.session_id)

\* the last call was a send_message on a new or owned session during which
\* the document search worked and the reasoning engine failed
TurnWithLLMFailure ==
    IF Sent
    THEN /\ chatRet.env.search_ok
         /\ IsNone(chatRet.env.llm)
         /\ IF IsNone(chatRet.request.session_id) THEN TRUE
            ELSE ~IsNone(OwnedSession(chatRet.before, Get(chatRet.request.session_id),
                                      chatRet.user))
    ELSE FALSE

\* the messages the session of the last send_message held when the call began
MessagesBefore ==
    IF IsNone(chatRet.request.session_id) THEN <<>>
    ELSE Get(OwnedSession(chatRet.before, Get(chatRet.request.session_id),
                          chatRet.user)).messages

\* C11: a send_message during which the reasoning engine fails still
\* succeeds; the session's messages grow by exactly the user's message
\* followed by an assistant message carrying the fixed apology, the response
\* has no sources, and updated_at is the time of the call
ApologyOnLLMFailure ==
    TurnWithLLMFailure =>
        /\ ~chatRet.raised
        /\ ~IsNone(chatRet.response)
        /\ LET r == Get(chatRet.response)
               stored == OwnedSession(sessions, r.session_id, chatRet.user)
           IN  /\ r.sources = <<>>
               /\ r.message.role = "assistant"
               /\ r.message.content = apology
               /\ ~IsNone(stored)
               /\ Get(stored).messages =
                     MessagesBefore \o <<ChatMessage("user", chatRet.request.message, chatRet.at),
                                         r.message>>
               /\ Get(stored).updated_at = chatRet.at

\* the reasoning engine failed on a later turn of a stock conversation whose
\* search returned a usable source
ApologyOnLLMFailureWitness ==
    /\ TurnWithLLMFailure
    /\ ~chatRet.raised
    /\ Len(MessagesBefore) = 2
    /\ LET stored == Get(OwnedSession(sessions, Get(chatRet.response).session_id,
                                      chatRet.user))
       IN  /\ ~IsNone(stored.stock_symbol)
           /\ stored.created_at < chatRet.at
           /\ Len(stored.messages) = 4
    /\ SourcesOf(chatRet.env.docs) # <<>>

\* the id the last call named is not a session of the caller: absent from
\* the store, or another user's
NotOwned(id) == IsNone(OwnedSession(chatRet.before, id, chatRet.user))

\* C12: send_message on a session id that is not in the store or belongs to
\* another user raises and leaves the store as it was; get_chat_history of
\* such an id returns no messages; delete_chat_session of it returns false
\* and deletes nothing
SessionOwnership ==
    /\ (Sent /\ ~TurnIsNew /\ NotOwned(Get(chatRet.request.session_id))) =>
          /\ chatRet.raised
          /\ IsNone(chatRet.response)
          /\ sessions = chatRet.before
          /\ issued = chatRet.issued_before
    /\ (chatRet.op = "history" /\ NotOwned(chatRet.id)) => chatRet.messages = <<>>
    /\ (chatRet.op = "delete" /\ NotOwned(chatRet.id)) =>
          /\ ~chatRet.deleted
          /\ sessions = chatRet.before

\* a turn was refused on another user's session that holds messages
SessionOwnershipWitness ==
    /\ Sent
    /\ ~TurnIsNew
    /\ chatRet.raised
    /\ \E x \in SessionsOf(sessions) :
          /\ x.id = Get(chatRet.request.session_id)
          /\ x.user_id # chatRet.user
          /\ Len(x.messages) = 2

Swept == chatRet.op = "sweep"

\* idle time of session x at the last sweep
IdleAtSweep(x) == chatRet.at - x.updated_at

\* C13: after _clean_old_sessions at time t the store holds exactly the
\* sessions it held whose updated_at is not earlier than t - 7 days, each as
\* it was and in the same order; no user's listing then shows a session idle
\* for more than 7 days, and no session touched within 7 days is missing
ExpirySweep ==
    Swept =>
        /\ SessionsOf(sessions) =
              {x \in SessionsOf(chatRet.before) : x.updated_at >= chatRet.at - session_ttl}
        /\ sessions = SelectSeq(chatRet.before, LAMBDA x : x \in SessionsOf(sessions))
        /\ \A user \in Users :
              LET listed == GetUserChatSessions(sessions, user)
              IN  /\ \A k \in 1 .. Len(listed) : IdleAtSweep(listed[k]) <= session_ttl
                  /\ \A x \in SessionsOf(chatRet.before) :
                        (x.user_id = user /\ IdleAtSweep(x) <= session_ttl) =>
                            \E k \in 1 .. Len(listed) : listed[k] = x

\* a sweep that removed a session idle for 7 days and a second, and kept one
\* idle for exactly 7 days
ExpirySweepWitness ==
    /\ Swept
    /\ \E x \in SessionsOf(chatRet.before) :
          IdleAtSweep(x) = session_ttl + 1 /\ x \notin SessionsOf(sessions)
    /\ \E x \in SessionsOf(sessions) : IdleAtSweep(x) = session_ttl

\* user, assistant, user, assistant, ...: even length, roles by position
Alternates(messages) ==
    /\ Len(messages) % 2 = 0
    /\ \A i \in 1 .. Len(messages) :
          messages[i].role = (IF i % 2 = 1 THEN "user" ELSE "assistant")

\* C26: after any sequence of send_message calls executed one at a time,
\* returning or raising (a failure of the document search included), every
\* session's message list strictly alternates user, assistant, starting
\* with user: no user message is stored without its answer.
TurnPairing ==
    \A x \in SessionsOf(sessions) : Alternates(x.messages)


(***************************************************************************)
(* The chat service as it is deployed: the routes serve requests and time  *)
(* passes.  _clean_old_sessions has no caller in the repository, so no     *)
(* step of the running system is a sweep.                                  *)
(***************************************************************************)
NextChatLive ==
    \/ \E d \in ChatTickSteps : ChatTick(d)
    \/ ChatRequestStep

\* time does not stop; requests may
SpecChatLive ==
    Init /\ [][NextChatLive]_vars /\ WF_vars(\E d \in ChatTickSteps : ChatTick(d))

\* session id is in the store and was last touched at time t
Untouched(id, t) ==
    \E x \in SessionsOf(sessions) : x.id = id /\ x.updated_at = t

\* C14: a session that gets no further turn and is not deleted is eventually
\* removed from the store: a session last touched when the clock started
\* (the clock runs on for 7 days and more) does not stay in the store as it
\* is for ever
ExpiryLiveness ==
    \A id \in 1 .. MaxChatOps :
        Untouched(id, StartTime) ~> ~Untouched(id, StartTime)


(***************************************************************************)
(* One conversation followed turn by turn: the first send_message opens    *)
(* the session, the later ones continue it, a second apart.                *)
(***************************************************************************)
\* the request of the next turn of the conversation
TurnRequests ==
    IF issued = 0
    THEN {[message |-> "hello", session_id |-> None, stock_symbol |-> sym] :
            sym \in ChatSymbols}
    ELSE {[message |-> "hello", session_id |-> Some(1), stock_symbol |-> None]}

\* POST /chat/message by user 1, keeping the history the prompt was given
ConversationTurn(request, env) ==
    /\ calls < MaxTurns
    /\ LET sent == SendMessage(sessions, issued, now, request, 1, env)
       IN  /\ sessions' = sent.sessions
           /\ issued' = sent.issued
           /\ chatRet' = [op |-> "turn", request |-> request, env |-> env,
                          raised |-> sent.raised, history |-> sent.history,
                          before |-> sessions, at |-> now]
    /\ now' = now + 1
    /\ calls' = calls + 1
    /\ UNCHANGED <<cache, cacheRet, stockRet, pfRet, portfolios_memory, opRet, scoreRet,
                   runVars>>

NextConversation ==
    \E request \in TurnRequests, env \in ChatEnvs : ConversationTurn(request, env)

SpecConversation == Init /\ [][NextConversation]_vars

\* the messages of the conversation before the turn
PriorMessages ==
    IF chatRet.before = <<>> THEN <<>> ELSE chatRet.before[1].messages

PromptBuilt == chatRet.op = "turn" /\ ~IsNone(chatRet.history)

\* C23: the conversation history in the prompt of a turn is the up-to-6
\* most recent messages that precede the in-flight user message, oldest
\* first and without the in-flight message; 6 or more prior messages give
\* exactly 6.
HistoryWindow ==
    PromptBuilt =>
        LET prior == PriorMessages
            first == IF Len(prior) > 6 THEN Len(prior) - 5 ELSE 1
        IN  /\ Get(chatRet.history) = SubSeq(prior, first, Len(prior))
            /\ Len(prior) >= 6 => Len(Get(chatRet.history)) = 6


(***************************************************************************)
(* Portfolio scores (services/portfolio.py).  Python numbers keep their    *)
(* type: float and Decimal do not mix under +.                             *)
(***************************************************************************)
\* a float holding a multiple of 0.01, kept in hundredths
PyFloat(hundredths) == [type |-> "float", value |-> hundredths]
PyDecimal(d) == [type |-> "Decimal", value |-> d]

\* x + y in Python: float + Decimal raises TypeError
PyAdd(x, y) ==
    IF x.type # y.type
    THEN [raised |-> TRUE, result |-> None]
    ELSE [raised |-> FALSE,
          result |-> Some(IF x.type = "float" THEN PyFloat(x.value + y.value)
                          ELSE PyDecimal(DecAdd(x.value, y.value)))]

\* round(x, 2) of a Decimal: two decimal places, half to even
DecQuantize2(d) ==
    IF d.e >= -2 THEN d
    ELSE LET p == Pow10(-2 - d.e)
             a == Abs(d.c)
             q == a \div p
             r == a % p
             up == (2 * r > p) \/ (2 * r = p /\ q % 2 = 1)
         IN  DecNorm(Sign(d.c) * (IF up THEN q + 1 ELSE q), -2)

\* Decimal(str(round(x, 2)))
RoundedDecimal(x) ==
    IF x.type = "float" THEN DecDiv(Dec(x.value), Dec(100)) ELSE DecQuantize2(x.value)

\* sector = stock.sector or "Unknown"
SectorOf(stock) == IF IsNone(stock.sector) THEN "Unknown" ELSE Get(stock.sector)

\* stock_value = stock.market_value or (stock.shares * stock.purchase_price)
StockValue(stock) ==
    IF Truthy(stock.market_value) THEN Get(stock.market_value)
    ELSE DecMul(stock.shares, stock.purchase_price)

\* the sectors dict after the first n holdings, its entries in insertion
\* order: a new sector starts at Decimal("0"), then sectors[sector] += stock_value
RECURSIVE Sectors(_, _)
Sectors(stocks, n) ==
    IF n = 0 THEN <<>>
    ELSE LET sectors == Sectors(stocks, n - 1)
             sector == SectorOf(stocks[n])
             stock_value == StockValue(stocks[n])
         IN  IF \E i \in 1 .. Len(sectors) : sectors[i].key = sector
             THEN LET i == CHOOSE j \in 1 .. Len(sectors) : sectors[j].key = sector
                  IN  [sectors EXCEPT ![i].value = DecAdd(@, stock_value)]
             ELSE Append(sectors, [key |-> sector, value |-> DecAdd(Dec(0), stock_value)])

\* the running totals of sum(terms): the start value 0, then the total
\* after each of the first k terms
RECURSIVE RunningSum(_, _)
RunningSum(terms, k) ==
    IF k = 0 THEN <<Dec(0)>>
    ELSE LET totals == RunningSum(terms, k - 1)
         IN  Append(totals, DecAdd(totals[Len(totals)], terms[k]))

\* sum((value / total_value) ** 2 for value in sectors.values())
ConcentrationIndex(sectors, total_value) ==
    LET terms == [i \in 1 .. Len(sectors) |->
                    LET share == DecDiv(sectors[i].value, total_value)
                    IN  DecMul(share, share)]
        totals == RunningSum(terms, Len(terms))
    IN  totals[Len(totals)]

\* PortfolioService._calculate_portfolio_risk: None for no holdings; else
\* the float (1 - diversification_factor) * 50 plus the Decimal
\* concentration_index * 50
CalculatePortfolioRisk(portfolio) ==
    IF portfolio.stocks = <<>> THEN [raised |-> FALSE, risk_score |-> None]
    ELSE LET num_stocks == Len(portfolio.stocks)
             \* min(1.0, num_stocks / 10.0), in hundredths
             diversification_factor == IF num_stocks >= 10 THEN 100 ELSE 10 * num_stocks
             total_value == IF Truthy(portfolio.total_value)
                            THEN Get(portfolio.total_value) ELSE Dec(1)
             sectors == Sectors(portfolio.stocks, num_stocks)
             concentration_index == ConcentrationIndex(sectors, total_value)
             risk_score == PyAdd(PyFloat((100 - diversification_factor) * 50),
                                 PyDecimal(DecMul(concentration_index, Dec(50))))
         IN  IF risk_score.raised THEN [raised |-> TRUE, risk_score |-> None]
             ELSE [raised |-> FALSE,
                   risk_score |-> Some(RoundedDecimal(Get(risk_score.result)))]

\* PortfolioService._calculate_diversification_score; the scores are
\* multiples of 0.01 and kept in hundredths
CalculateDiversificationScore(portfolio) ==
    IF portfolio.stocks = <<>> THEN [stock_score |-> 0, sector_score |-> 0, score |-> None]
    ELSE LET num_stocks == Len(portfolio.stocks)
             \* min(100, (num_stocks / 20) * 50)
             stock_score == IF 250 * num_stocks > 10000 THEN 10000 ELSE 250 * num_stocks
             sectors == {Get(portfolio.stocks[i].sector) :
                            i \in {j \in 1 .. num_stocks : ~IsNone(portfolio.stocks[j].sector)}}
             \* min(50, len(sectors) * 5)
             sector_score == IF 500 * Cardinality(sectors) > 5000 THEN 5000
                             ELSE 500 * Cardinality(sectors)
         IN  [stock_score |-> stock_score, sector_score |-> sector_score,
              score |-> Some(stock_score + sector_score)]

(***************************************************************************)
(* The scores and the overall risk level computed on portfolios and lists  *)
(* of analyses of every shape within the bounds.                           *)
(***************************************************************************)
\* a revalued portfolio of n one-share holdings over k sectors (none has a
\* sector when k = 0), the first holding worth `first`, the others 1
ScoredPortfolio(n, k, first) ==
    LET stocks == [i \in 1 .. n |->
                     [sector |-> IF k = 0 THEN None ELSE Some(((i - 1) % k) + 1),
                      shares |-> Dec(1), purchase_price |-> Dec(1),
                      market_value |-> Some(Dec(IF i = 1 THEN first ELSE 1))]]
    IN  [stocks |-> stocks,
         total_value |-> IF n = 0 THEN Some(Dec(0)) ELSE Some(Dec(n - 1 + first))]

ScoredPortfolios ==
    {ScoredPortfolio(n, k, first) :
        n \in 0 .. MaxStocks, k \in 0 .. MaxSectors, first \in 1 .. MaxPrice}

RiskLevels == {"very_low", "low", "medium", "high", "very_high"}

\* lists of analyses as _calculate_overall_risk_level reads them
AnalysisLists ==
    UNION {[1 .. n -> [risk_level : RiskLevels]] : n \in 0 .. MaxLevels}

\* one computation per run: the functions keep no state
CalcRisk(portfolio) ==
    /\ scoreRet = NoCall
    /\ scoreRet' = [op |-> "risk", portfolio |-> portfolio,
                    out |-> CalculatePortfolioRisk(portfolio)]
    /\ UNCHANGED <<cache, now, cacheRet, stockRet, pfRet, portfolios_memory, opRet,
                   calls, chatVars, runVars>>

CalcDiversification(portfolio) ==
    /\ scoreRet = NoCall
    /\ scoreRet' = [op |-> "diversification", portfolio |-> portfolio,
                    out |-> CalculateDiversificationScore(portfolio)]
    /\ UNCHANGED <<cache, now, cacheRet, stockRet, pfRet, portfolios_memory, opRet,
                   calls, chatVars, runVars>>

CalcOverallRisk(analyses) ==
    /\ scoreRet = NoCall
    /\ scoreRet' = [op |-> "overall", analyses |-> analyses,
                    out |-> CalculateOverallRiskLevel(analyses)]
    /\ UNCHANGED <<cache, now, cacheRet, stockRet, pfRet, portfolios_memory, opRet,
                   calls, chatVars, runVars>>

NextScores ==
    \/ \E portfolio \in ScoredPortfolios : CalcRisk(portfolio)
    \/ \E portfolio \in ScoredPortfolios : CalcDiversification(portfolio)
    \/ \E analyses \in AnalysisLists : CalcOverallRisk(analyses)

SpecScores == Init /\ [][NextScores]_vars


(***************************************************************************)
(* Properties of the scores (checked under SpecScores).                    *)
(***************************************************************************)
ScoredRisk == scoreRet.op = "risk"
ScoredDiversification == scoreRet.op = "diversification"
ScoredOverall == scoreRet.op = "overall"

\* sum over the sectors of (sector value / total value) squared
HHI(portfolio) ==
    LET sectors == Sectors(portfolio.stocks, Len(portfolio.stocks))
    IN  ConcentrationIndex(sectors, Get(portfolio.total_value))

\* C15: for a non-empty portfolio _calculate_portfolio_risk returns
\* (1 - min(1, holdings / 10)) x 50 + HHI x 50, a value in [0, 100], and 95
\* for a portfolio of exactly one holding
RiskScoreFormula ==
    (ScoredRisk /\ scoreRet.portfolio.stocks # <<>>) =>
        /\ ~scoreRet.out.raised
        /\ ~IsNone(scoreRet.out.risk_score)
        /\ LET n == Len(scoreRet.portfolio.stocks)
               spread == IF n >= 10 THEN 0 ELSE 50 - 5 * n
               score == Get(scoreRet.out.risk_score)
           IN  /\ score = DecQuantize2(DecAdd(Dec(spread),
                                              DecMul(HHI(scoreRet.portfolio), Dec(50))))
               /\ DecLe(Dec(0), score)
               /\ DecLe(score, Dec(100))
               /\ n = 1 => score = Dec(95)

\* C16: for a non-empty portfolio _calculate_diversification_score returns
\* stock_score + sector_score within [0, 100], the stock component at most
\* 50 (reached at 20 holdings and kept beyond) and the sector component at
\* most 50; scores are in hundredths
DiversificationRange ==
    (ScoredDiversification /\ scoreRet.portfolio.stocks # <<>>) =>
        LET out == scoreRet.out
        IN  /\ out.score = Some(out.stock_score + out.sector_score)
            /\ 0 <= Get(out.score)
            /\ Get(out.score) <= 10000
            /\ out.stock_score <= 5000
            /\ out.sector_score <= 5000
            /\ Len(scoreRet.portfolio.stocks) >= 20 => out.stock_score = 5000

LevelOrder == <<"very_low", "low", "medium", "high", "very_high">>
Rank(level) == CHOOSE k \in 1 .. 5 : LevelOrder[k] = level

RECURSIVE RankSum(_)
RankSum(analyses) ==
    IF analyses = <<>> THEN 0
    ELSE Rank(Head(analyses).risk_level) + RankSum(Tail(analyses))

\* the level whose bucket (average <= 1.5, 2.5, 3.5, 4.5, else very_high)
\* holds the average rank
Bucket(analyses) ==
    LET fits == {k \in 1 .. 4 : 10 * RankSum(analyses) <= (10 * k + 5) * Len(analyses)}
    IN  IF fits = {} THEN "very_high"
        ELSE LevelOrder[CHOOSE k \in fits : \A j \in fits : k <= j]

\* C17: _calculate_overall_risk_level returns the bucket of the average
\* rank of a non-empty list of analyses ([low, medium, high] gives medium)
\* and medium for an empty list
OverallRiskLevel ==
    ScoredOverall =>
        /\ scoreRet.analyses # <<>> => scoreRet.out = Bucket(scoreRet.analyses)
        /\ scoreRet.analyses = <<>> => scoreRet.out = "medium"
        /\ scoreRet.analyses = <<[risk_level |-> "low"], [risk_level |-> "medium"],
                                 [risk_level |-> "high"]>> => scoreRet.out = "medium"

\* an average on a bucket boundary: very_low and low average 1.5
OverallRiskLevelWitness ==
    /\ ScoredOverall
    /\ scoreRet.analyses = <<[risk_level |-> "very_low"], [risk_level |-> "low"]>>
    /\ scoreRet.out = "very_low"


(***************************************************************************)
(* News collection on its own: the market-data provider's client reads a   *)
(* response of the news API, the scraper returns its articles, and         *)
(* _collect_news_data merges the two lists.                                *)
(***************************************************************************)
MaxResponse == 2    \* articles in one response of the news API

\* article URLs the news API can report
ApiUrls == {"u1", "u2", "u3"}

\* one article of list_ticker_news: published_utc either carries a UTC
\* designator ("Z") or is a bare local timestamp, and lies inside or
\* outside the requested window of days
ApiArticles ==
    [article_url : ApiUrls, published_utc : {"Z", "bare"}, recent : BOOLEAN]

ApiResponses ==
    UNION {[1 .. n -> ApiArticles] : n \in 0 .. MaxResponse}

RECURSIVE RecentUrls(_)
RecentUrls(news_response) ==
    IF news_response = <<>> THEN <<>>
    ELSE (IF Head(news_response).recent
          THEN <<Head(news_response).article_url>> ELSE <<>>)
         \o RecentUrls(Tail(news_response))

\* PolygonClient.get_stock_news: cutoff_date is datetime.now() (no zone);
\* fromisoformat of a timestamp whose "Z" became "+00:00" carries a zone,
\* and comparing the two raises TypeError, which the function catches by
\* returning the empty list
GetStockNews(news_response) ==
    IF \E i \in 1 .. Len(news_response) : news_response[i].published_utc = "Z"
    THEN <<>>
    ELSE RecentUrls(news_response)

scrape_limit == 25

\* URLs the scraper can return, in the order it finds them (seen_urls keeps
\* them distinct, and it stops at scrape_limit articles)
ScrapedPool ==
    <<"u2", "u3",
      "s03", "s04", "s05", "s06", "s07", "s08", "s09", "s10",
      "s11", "s12", "s13", "s14", "s15", "s16", "s17", "s18",
      "s19", "s20", "s21", "s22", "s23", "s24", "s25">>

ScrapedLists ==
    {SubSeq(ScrapedPool, 1, n) : n \in {0, 1, 2, scrape_limit}}

CollectNews(news_response, scraped_articles) ==
    /\ newsRet = NoCall
    /\ LET polygon_news == GetStockNews(news_response)
       IN  newsRet' = [op |-> "news", news_response |-> news_response,
                       polygon_news |-> polygon_news,
                       scraped_articles |-> scraped_articles,
                       out |-> CollectNewsData(polygon_news, scraped_articles)]
    /\ UNCHANGED <<cache, now, cacheRet, stockRet, pfRet, portfolios_memory, opRet,
                   calls, chatVars, scoreRet, tasks>>

NextNews ==
    \E news_response \in ApiResponses, scraped_articles \in ScrapedLists :
        CollectNews(news_response, scraped_articles)

SpecNews == Init /\ [][NextNews]_vars

UrlIn(url, articles) == \E i \in 1 .. Len(articles) : articles[i] = url

\* C24: _collect_news_data returns at most 25 items, no two of them with
\* the same URL, and a URL returned by both sources is kept as the item of
\* the market-data provider
NewsMerge ==
    newsRet.op = "news" =>
        LET out == newsRet.out
        IN  /\ Len(out) <= news_limit
            /\ \A i, j \in 1 .. Len(out) : out[i].url = out[j].url => i = j
            /\ \A i \in 1 .. Len(out) :
                   (/\ UrlIn(out[i].url, newsRet.polygon_news)
                    /\ UrlIn(out[i].url, newsRet.scraped_articles))
                       => out[i].origin = "polygon"


(***************************************************************************)
(* Concurrent analyze_stock calls.  Each request is a task of the event    *)
(* loop; a task runs from one await of analyze_stock to the next           *)
(* (analysis.py:64, 70, 73) and other tasks may run in between.            *)
(***************************************************************************)
MaxTasks == 2       \* requests in flight together

RaceUsers == {1, 2}
\* every collaborator answers, the structured call fails, or the vector
\* store cannot index
RaceEnvs ==
    {Env({}, Some(LLMBullish)), Env({}, Some(LLMTerse)), Env({}, None),
     Env({"index"}, None)}

TaskKey(task) == CacheKey(task.symbol, task.user)

\* POST /stock/{symbol} arrives: a new task at the top of analyze_stock
SubmitAnalysis(symbol, user, env) ==
    /\ Len(tasks) < MaxTasks
    /\ tasks' = Append(tasks, [symbol |-> symbol, user |-> user, env |-> env,
                               pc |-> "check", hit |-> FALSE, raised |-> FALSE,
                               result |-> None, news_sources |-> <<>>,
                               order |-> 0])
    /\ UNCHANGED <<cache, now, cacheRet, stockRet, pfRet, portfolios_memory, opRet,
                   calls, chatVars, scoreRet, newsRet>>

\* analysis.py:55-64: the cache check, up to the await of _collect_news_data
CheckStep(i) ==
    /\ tasks[i].pc = "check"
    /\ LET cached_result == GetFromCache(cache, TaskKey(tasks[i]), now)
       IN  /\ cache' = cached_result.cache
           /\ tasks' = IF ~IsNone(cached_result.value)
                       THEN [tasks EXCEPT ![i].pc = "done", ![i].hit = TRUE,
                                          ![i].result = cached_result.value]
                       ELSE [tasks EXCEPT ![i].pc = "collect"]
    /\ UNCHANGED <<now, cacheRet, stockRet, pfRet, portfolios_memory, opRet,
                   calls, chatVars, scoreRet, newsRet>>

\* analysis.py:64-70: the news arrive, market data, up to the await of
\* _process_and_store_documents
CollectStep(i) ==
    /\ tasks[i].pc = "collect"
    /\ tasks' = [tasks EXCEPT
                    ![i].pc = "index",
                    ![i].news_sources = CollectNewsData(tasks[i].env.polygon_news,
                                                        tasks[i].env.scraped)]
    /\ UNCHANGED <<cache, now, cacheRet, stockRet, pfRet, portfolios_memory, opRet,
                   calls, chatVars, scoreRet, newsRet>>

\* analysis.py:70-73: the documents are indexed (or the vector store
\* raises), up to the await of _perform_rag_analysis
IndexStep(i) ==
    /\ tasks[i].pc = "index"
    /\ tasks' = IF tasks[i].env.index_ok
                THEN [tasks EXCEPT ![i].pc = "rag"]
                ELSE [tasks EXCEPT ![i].pc = "done", ![i].raised = TRUE]
    /\ UNCHANGED <<cache, now, cacheRet, stockRet, pfRet, portfolios_memory, opRet,
                   calls, chatVars, scoreRet, newsRet>>

\* analysis.py:73-97: the reasoning result arrives, the StockAnalysis is
\* built and stored in the cache
RagStepKeepFirst(i) ==
    /\ tasks[i].pc = "rag"
    /\ LET rag == PerformRagAnalysis(tasks[i].env)
       IN  IF rag.raised
           THEN /\ tasks' = [tasks EXCEPT ![i].pc = "done", ![i].raised = TRUE]
                /\ UNCHANGED <<cache, calls>>
           ELSE LET stock_analysis == StockAnalysis(tasks[i].symbol, Get(rag.out),
                                                    tasks[i].news_sources, now)
                IN  /\ cache' = IF CacheHas(cache, TaskKey(tasks[i]))
                                THEN cache
                                ELSE CacheResult(cache, TaskKey(tasks[i]),
                                                 stock_analysis, now)
                    /\ calls' = calls + 1
                    /\ tasks' = [tasks EXCEPT ![i].pc = "done",
                                              ![i].result = Some(stock_analysis),
                                              ![i].order = calls + 1]
    /\ UNCHANGED <<now, cacheRet, stockRet, pfRet, portfolios_memory, opRet,
                   chatVars, scoreRet, newsRet>>
RagStep(i) ==
    /\ tasks[i].pc = "rag"
    /\ LET rag == PerformRagAnalysis(tasks[i].env)
       IN  IF rag.raised
           THEN /\ tasks' = [tasks EXCEPT ![i].pc = "done", ![i].raised = TRUE]
                /\ UNCHANGED <<cache, calls>>
           ELSE LET stock_analysis == StockAnalysis(tasks[i].symbol, Get(rag.out),
                                                    tasks[i].news_sources, now)
                IN  /\ cache' = CacheResult(cache, TaskKey(tasks[i]),
                                            stock_analysis, now)
                    /\ calls' = calls + 1
                    /\ tasks' = [tasks EXCEPT ![i].pc = "done",
                                              ![i].result = Some(stock_analysis),
                                              ![i].order = calls + 1]
    /\ UNCHANGED <<now, cacheRet, stockRet, pfRet, portfolios_memory, opRet,
                   chatVars, scoreRet, newsRet>>

\* the clock advances by a second while requests are served
RaceTick ==
    /\ now < StartTime + MaxTasks
    /\ now' = now + 1
    /\ UNCHANGED <<cache, cacheRet, stockRet, pfRet, portfolios_memory, opRet, calls,
                   otherVars>>

NextRace ==
    \/ \E user \in RaceUsers, env \in RaceEnvs : SubmitAnalysis("AAPL", user, env)
    \/ \E i \in 1 .. Len(tasks) : CheckStep(i)
    \/ \E i \in 1 .. Len(tasks) : CollectStep(i)
    \/ \E i \in 1 .. Len(tasks) : IndexStep(i)
    \/ \E i \in 1 .. Len(tasks) : RagStep(i)
    \/ RaceTick

SpecRace == Init /\ [][NextRace]_vars

\* tasks i and j are two calls for the same (symbol, user) that both found
\* no cached entry, and both have returned
BothMissed(i, j) ==
    /\ i # j
    /\ TaskKey(tasks[i]) = TaskKey(tasks[j])
    /\ tasks[i].pc = "done" /\ tasks[j].pc = "done"
    /\ ~tasks[i].hit /\ ~tasks[j].hit
    /\ ~tasks[i].raised /\ ~tasks[j].raised

\* no call for the key of task j has stored after it
StoredLast(j) ==
    \A k \in 1 .. Len(tasks) :
        TaskKey(tasks[k]) = TaskKey(tasks[j]) => tasks[k].order <= tasks[j].order

CompleteAnalysis(task) ==
    /\ ~IsNone(task.result)
    /\ LET a == Get(task.result)
       IN  /\ a.symbol = task.symbol
           /\ a.news_sources = CollectNewsData(task.env.polygon_news, task.env.scraped)
           /\ a.recommendation_action =
                 (IF IsNone(task.env.llm) THEN CreateFallbackAnalysis
                  ELSE Get(task.env.llm)).recommendation_action
           /\ a.risk_level =
                 (IF IsNone(task.env.llm) THEN CreateFallbackAnalysis
                  ELSE Get(task.env.llm)).risk_level

Questions == <<"q1", "q2", "q3", "q4">>
Answers == <<"a1", "a2", "a3", "a4">>

\* what the collaborators do during the k-th turn
TurnEnvs(k) ==
    {[search_ok |-> FALSE, docs |-> <<>>, llm |-> None],
     [search_ok |-> TRUE, docs |-> ChatDocs, llm |-> None],
     [search_ok |-> TRUE, docs |-> ChatDocs, llm |-> Some(Answers[k])]}

\* POST /chat arrives: a new task at the top of send_message
SubmitTurn(session_id, user, env) ==
    /\ Len(tasks) < MaxTasks
    /\ tasks' = Append(tasks,
                       [request |-> [message |-> Questions[Len(tasks) + 1],
                                     session_id |-> session_id,
                                     stock_symbol |-> Some("AAPL")],
                        user |-> user, env |-> env, pc |-> "lookup",
                        session |-> 0, raised |-> FALSE, asked |-> FALSE,
                        answer |-> None, began |-> 0, ended |-> 0])
    /\ UNCHANGED <<cache, now, cacheRet, stockRet, pfRet, portfolios_memory, opRet,
                   calls, chatVars, scoreRet, newsRet>>

\* chat.py:51-60: the session is fetched or created
LookupStep(i) ==
    /\ tasks[i].pc = "lookup"
    /\ calls' = calls + 1
    /\ IF IsNone(tasks[i].request.session_id)
       THEN LET created == CreateChatSession(sessions, issued, tasks[i].user,
                                             tasks[i].request.stock_symbol, now)
            IN  /\ sessions' = created.sessions
                /\ issued' = created.issued
                /\ tasks' = [tasks EXCEPT ![i].pc = "ask",
                                          ![i].session = created.session.id,
                                          ![i].began = calls + 1]
       ELSE LET found == GetChatSession(sessions, Get(tasks[i].request.session_id))
            IN  /\ UNCHANGED <<sessions, issued>>
                /\ tasks' = [tasks EXCEPT
                                ![i].pc = "ask",
                                ![i].session = IF IsNone(found) THEN 0
                                               ELSE Get(found).id,
                                ![i].began = calls + 1]
    /\ UNCHANGED <<cache, now, cacheRet, stockRet, pfRet, portfolios_memory, opRet,
                   chatRet, scoreRet, newsRet>>

\* chat.py:53-54, 63-71 and 115-146: the session is validated, the user
\* message appended and the documents searched
AskStep(i) ==
    /\ tasks[i].pc = "ask"
    /\ calls' = calls + 1
    /\ LET found == GetChatSession(sessions, tasks[i].session)
           invalid == IF IsNone(found) THEN TRUE
                      ELSE Get(found).user_id # tasks[i].user
       IN  IF invalid
           THEN /\ tasks' = [tasks EXCEPT ![i].pc = "done", ![i].raised = TRUE,
                                          ![i].ended = calls + 1]
                /\ UNCHANGED sessions
           ELSE LET user_message == ChatMessage("user", tasks[i].request.message, now)
                    asked == [Get(found) EXCEPT !.messages = Append(@, user_message)]
                IN  /\ sessions' = PutSession(sessions, asked)
                    /\ tasks' = IF tasks[i].env.search_ok
                                THEN [tasks EXCEPT ![i].pc = "answer",
                                                   ![i].asked = TRUE]
                                ELSE [tasks EXCEPT ![i].pc = "done",
                                                   ![i].raised = TRUE,
                                                   ![i].asked = TRUE,
                                                   ![i].ended = calls + 1]
    /\ UNCHANGED <<cache, now, cacheRet, stockRet, pfRet, portfolios_memory, opRet,
                   issued, chatRet, scoreRet, newsRet>>

\* chat.py:146-158 and 76-91: the prompt is built from the session as it is
\* now, the reasoning engine answers (or the apology stands in), the
\* assistant message is appended and the session stored
AnswerStepOverwriting(i) ==
    /\ tasks[i].pc = "answer"
    /\ calls' = calls + 1
    /\ LET session == Get(GetChatSession(sessions, tasks[i].session))
           ai == GenerateAIResponse(session, tasks[i].env)
           ai_message == ChatMessage("assistant", ai.content, now)
           answered == [session EXCEPT
                           !.messages = [@ EXCEPT ![Len(@)] = ai_message],
                           !.updated_at = now]
       IN  /\ sessions' = PutSession(sessions, answered)
           /\ tasks' = [tasks EXCEPT ![i].pc = "done",
                                     ![i].answer = Some(ai_message),
                                     ![i].ended = calls + 1]
    /\ UNCHANGED <<cache, now, cacheRet, stockRet, pfRet, portfolios_memory, opRet,
                   issued, chatRet, scoreRet, newsRet>>
AnswerStep(i) ==
    /\ tasks[i].pc = "answer"
    /\ calls' = calls + 1
    /\ LET session == Get(GetChatSession(sessions, tasks[i].session))
           ai == GenerateAIResponse(session, tasks[i].env)
           ai_message == ChatMessage("assistant", ai.content, now)
           answered == [session EXCEPT !.messages = Append(@, ai_message),
                                       !.updated_at = now]
       IN  /\ sessions' = PutSession(sessions, answered)
           /\ tasks' = [tasks EXCEPT ![i].pc = "done",
                                     ![i].answer = Some(ai_message),
                                     ![i].ended = calls + 1]
    /\ UNCHANGED <<cache, now, cacheRet, stockRet, pfRet, portfolios_memory, opRet,
                   issued, chatRet, scoreRet, newsRet>>

TurnTick ==
    /\ now < StartTime + MaxTasks
    /\ now' = now + 1
    /\ UNCHANGED <<cache, cacheRet, stockRet, pfRet, portfolios_memory, opRet, calls,
                   otherVars>>

NextTurns ==
    \/ \E session_id \in {None} \cup {Some(id) : id \in KnownIds}, user \in Users :
          \E env \in TurnEnvs(Len(tasks) + 1) : SubmitTurn(session_id, user, env)
    \/ \E i \in 1 .. Len(tasks) : LookupStep(i)
    \/ \E i \in 1 .. Len(tasks) : AskStep(i)
    \/ \E i \in 1 .. Len(tasks) : AnswerStep(i)
    \/ TurnTick

SpecTurns == Init /\ [][NextTurns]_vars

\* the messages of the session task i works on
TaskMessages(i) == Get(GetChatSession(sessions, tasks[i].session)).messages

\* how often a message with this role and content is in the list
Occurrences(messages, role, content) ==
    Cardinality({k \in 1 .. Len(messages) :
                    messages[k].role = role /\ messages[k].content = content})

\* turn i has completed with a reply
Replied(i) == tasks[i].pc = "done" /\ ~tasks[i].raised

\* turns i and j ran on one session, each beginning before the other ended
Overlapped(i, j) ==
    /\ i # j
    /\ Replied(i) /\ Replied(j)
    /\ tasks[i].session = tasks[j].session
    /\ tasks[i].began < tasks[j].ended
    /\ tasks[j].began < tasks[i].ended

\* a message that turn i appended is not in the session's list
MessageMissing(i) ==
    \/ Occurrences(TaskMessages(i), "user", tasks[i].request.message) = 0
    \/ ~\E k \in 1 .. Len(TaskMessages(i)) : TaskMessages(i)[k] = Get(tasks[i].answer)

SubmitAdd(symbol, shares, purchase_price, quote) ==
    /\ Len(tasks) < MaxTasks
    /\ tasks' = Append(tasks, [symbol |-> symbol, shares |-> shares,
                               purchase_price |-> purchase_price, quote |-> quote,
                               pc |-> "read", portfolio |-> None, ok |-> FALSE])
    /\ UNCHANGED <<cache, now, cacheRet, stockRet, pfRet, portfolios_memory, opRet,
                   calls, chatVars, scoreRet, newsRet>>

\* portfolio.py:78-80: storage.get_portfolio builds a Portfolio of its own
\* from the stored data; None ends the call
ReadStep(i) ==
    /\ tasks[i].pc = "read"
    /\ tasks' = IF IsNone(portfolios_memory)
                THEN [tasks EXCEPT ![i].pc = "done"]
                ELSE [tasks EXCEPT ![i].pc = "modify",
                                   ![i].portfolio = portfolios_memory]
    /\ UNCHANGED <<cache, now, cacheRet, stockRet, pfRet, portfolios_memory, opRet,
                   calls, chatVars, scoreRet, newsRet>>

\* portfolio.py:82-140: the holding is built, merged or appended, and the
\* copy revalued
ModifyStep(i, quotes) ==
    /\ tasks[i].pc = "modify"
    /\ LET portfolio == Get(tasks[i].portfolio)
           stock_holding == StockHolding(tasks[i].symbol, tasks[i].shares,
                                         tasks[i].purchase_price, tasks[i].quote)
           stocks == AddOrMerge(portfolio.stocks, stock_holding)
       IN  tasks' = [tasks EXCEPT
                        ![i].pc = "write",
                        ![i].portfolio =
                            Some(UpdatePortfolioValues([portfolio EXCEPT !.stocks = stocks],
                                                       quotes))]
    /\ UNCHANGED <<cache, now, cacheRet, stockRet, pfRet, portfolios_memory, opRet,
                   calls, chatVars, scoreRet, newsRet>>

\* portfolio.py:142: storage.update_portfolio sets stocks and the totals of
\* the stored portfolio to those of the copy
WriteStep(i) ==
    /\ tasks[i].pc = "write"
    /\ portfolios_memory' = IF IsNone(portfolios_memory) THEN None
                            ELSE tasks[i].portfolio
    /\ tasks' = [tasks EXCEPT ![i].pc = "done", ![i].ok = ~IsNone(portfolios_memory)]
    /\ UNCHANGED <<cache, now, cacheRet, stockRet, pfRet, opRet, calls, chatVars,
                   scoreRet, newsRet>>

NextWrites ==
    \/ CreatePortfolio
    \/ \E symbol \in Symbols, n \in ShareLots, p \in Prices, quote \in Quotes :
          SubmitAdd(symbol, Dec(n), Dec(p), quote)
    \/ \E i \in 1 .. Len(tasks) : ReadStep(i)
    \/ \E i \in 1 .. Len(tasks), quotes \in QuoteMaps : ModifyStep(i, quotes)
    \/ \E i \in 1 .. Len(tasks) : WriteStep(i)

SpecWrites == Init /\ [][NextWrites]_vars

====
